---- MODULE Spec2Model ----
(***************************************************************************)
(* A model of the NLU pipeline of junction2025_googlecloud (src/NLU).     *)
(*                                                                         *)
(* Texts are sequences of tokens; a token is a fragment of one or more     *)
(* lower-case words and a text is its tokens joined by single blanks.      *)
(* Every regular expression and substring test of the source is modelled   *)
(* by what it does on the words of the vocabulary.                         *)
(*                                                                         *)
(* Numbers: raw intent scores are integers in millionths (Micro), which    *)
(* keeps every product of the source's multipliers exact; confidences are  *)
(* integers in thousandths (Milli), truncated where the source divides.    *)
(***************************************************************************)
EXTENDS Integers, Sequences, FiniteSets, TLC

VARIABLES
    config,               \* the 'nlu' section of config.Config._config
    semantic_classifier,  \* IntentClassifier.semantic_classifier: "None" or "ready"
    product_catalog,      \* ProductCatalog._catalog, in its normalized form
    pc,                   \* "idle" | "called" | "returned"; one per thread where threads run
    request,              \* the arguments of the call in progress
    result,               \* what the call returned
    session_manager,      \* session_manager.py:168, its _sessions and the session dicts it made
    time                  \* time.time(), in units of a third of the session TTL

vars == <<config, semantic_classifier, product_catalog, pc, request, result,
          session_manager, time>>

None == "None"

(***************************************************************************)
(* Bounds of the model.                                                    *)
(***************************************************************************)
MaxTokens == 3

(***************************************************************************)
(* Units.                                                                  *)
(***************************************************************************)
Micro == 1000 * 1000
Milli == 10 * 100

Min(a, b) == IF a <= b THEN a ELSE b
Max(a, b) == IF a >= b THEN a ELSE b

(***************************************************************************)
(* Texts.                                                                  *)
(***************************************************************************)
\* The fragments texts are made of, each a sequence of words.
CoreTokens ==
    {<<"yes">>, <<"no">>, <<"not">>, <<"human">>, <<"missing">>,
     <<"missing", "from", "my", "order">>, <<"only", "2", "2">>,
     <<"tomorrow">>, <<"need">>, <<"ei">>, <<"in", "my", "orders">>}

\* The bare replies of intent_classifier.py:390,393 not already in CoreTokens.
BareTokens == {<<"yeah">>, <<"yep">>, <<"ok">>, <<"okay">>, <<"sure">>, <<"nope">>, <<"nah">>}

TokenSeqs(n) == UNION {[1..k -> CoreTokens] : k \in 0..n}

Texts == TokenSeqs(MaxTokens) \cup {<<b>> : b \in BareTokens}

RECURSIVE Words(_)
\* text.split(): the words of the text, in order
Words(text) ==
    IF text = <<>> THEN <<>> ELSE Head(text) \o Words(Tail(text))

\* `word in text_lower` for a list of words: some word of the text contains one
HasWord(ws, S) == \E i \in 1..Len(ws) : ws[i] \in S

\* `phrase in text_lower` for a phrase of several words; Last holds the words
\* that begin with the last word of the phrase
HasPhrase(ws, p, Last) ==
    \E i \in 1..(Len(ws) - Len(p)) :
        SubSeq(ws, i, i + Len(p) - 1) = p /\ ws[i + Len(p)] \in Last

\* len(pattern.findall(text)) for \b(w1|w2|...)\b
Occ(ws, S) == Cardinality({i \in 1..Len(ws) : ws[i] \in S})

\* len(pattern.findall(text)) for \b(A).*\b(B)\b: the greedy .* runs to the last B,
\* so there is one match when some A is followed by some B, and none otherwise
After(ws, i, S) == \E j \in (i + 1)..Len(ws) : ws[j] \in S

Then2(ws, A, B) ==
    IF \E i \in 1..Len(ws) : ws[i] \in A /\ After(ws, i, B) THEN 1 ELSE 0

\* len(pattern.findall(text)) for \b(a b)\b
Then2Adjacent(ws, a, b) ==
    Cardinality({i \in 1..(Len(ws) - 1) : ws[i] = a /\ ws[i + 1] = b})

Then3(ws, A, B, C) ==
    IF \E i \in 1..Len(ws) :
          /\ ws[i] \in A
          /\ \E j \in (i + 1)..Len(ws) : ws[j] \in B /\ After(ws, j, C)
    THEN 1 ELSE 0

Then4(ws, A, B, C, D) ==
    IF \E i \in 1..Len(ws) :
          /\ ws[i] \in A
          /\ \E j \in (i + 1)..Len(ws) :
                /\ ws[j] \in B
                /\ \E k \in (j + 1)..Len(ws) : ws[k] \in C /\ After(ws, k, D)
    THEN 1 ELSE 0

(***************************************************************************)
(* intent_classifier.py                                                    *)
(***************************************************************************)
\* The keys of INTENT_PATTERNS, in the order the dictionary lists them.
IntentOrder ==
    <<"confirm_substitution", "reject_substitution", "request_callback",
      "report_issue", "confirm_delivery", "query_order_status",
      "provide_feedback", "greeting", "query_substitution", "thank_you",
      "change_delivery", "cancel_order", "query_products">>

Intents == {IntentOrder[k] : k \in 1..Len(IntentOrder)}

Languages == {"en", "fi"}

\* classify takes any language code: "de" is one INTENT_PATTERNS has no list for
ClassifyLanguages == Languages \cup {"de"}

\* line 316: lang_patterns.get(language, lang_patterns.get('en', [])); every
\* intent of the table lists en, fi and sv
patterns_language(language) ==
    IF language \in {"en", "fi", "sv"} THEN language ELSE "en"

\* The match counts, pattern by pattern, of the patterns of `intent` for `language`
\* that some text over the vocabulary can match (the others always count 0).
compiled_patterns(intent, language, ws) ==
    CASE patterns_language(language) = "en" /\ intent = "confirm_substitution" ->
            << Occ(ws, {"yes", "yeah", "yep", "ok", "okay", "sure"}) >>
      [] patterns_language(language) = "en" /\ intent = "reject_substitution" ->
            << Occ(ws, {"no", "nope", "nah"}),
               Then2(ws, {"not"}, {"need"}) >>
      [] patterns_language(language) = "en" /\ intent = "request_callback" ->
            << Occ(ws, {"human"}) >>
      [] patterns_language(language) = "en" /\ intent = "report_issue" ->
            << Occ(ws, {"missing"}),
               Then2(ws, {"order", "orders"}, {"missing"}),
               Then4(ws, {"only"}, {"2"}, {"not"}, {"2"}),
               Then4(ws, {"not", "no", "nope"}, {"in", "from"}, {"my"}, {"order"}) >>
      [] patterns_language(language) = "en" /\ intent = "query_order_status" ->
            << Then2Adjacent(ws, "my", "order") >>
      [] patterns_language(language) = "en" /\ intent = "change_delivery" ->
            << Then3(ws, {"need"}, {"order", "orders"}, {"tomorrow"}) >>
      [] patterns_language(language) = "fi" /\ intent = "reject_substitution" ->
            << Occ(ws, {"ei"}) >>
      [] OTHER -> << >>

RECURSIVE SumHits_single_bonus(_)
\* SumHits with the 0.5 added once for the whole list instead of once per
\* matching pattern
SumHits_single_bonus(counts) ==
    IF counts = <<>> THEN 0
    ELSE LET rest == SumHits_single_bonus(Tail(counts))
         IN  Head(counts) * 300000 + rest
             + (IF Head(counts) > 0 /\ rest = 0 THEN 500000 ELSE 0)

RECURSIVE SumHits(_)
\* lines 318-325: 0.3 for every match of a pattern and 0.5 for the pattern itself
SumHits(counts) ==
    IF counts = <<>> THEN 0
    ELSE (IF Head(counts) > 0 THEN Head(counts) * 300000 + 500000 ELSE 0)
         + SumHits(Tail(counts))

RawScore(intent, language, ws) == SumHits(compiled_patterns(intent, language, ws))

_has_negation(ws, language) ==
    IF language = "fi" THEN HasWord(ws, {"ei"})
    ELSE HasWord(ws, {"no", "not", "nope"})

HasCallbackPhrase(ws) == HasWord(ws, {"human"})

HasDiscrepancy(ws) == HasWord(ws, {"only", "not"}) /\ Occ(ws, {"2"}) >= 2

HasIssuePhrase(ws) ==
    \/ HasPhrase(ws, <<"missing", "from", "my">>, {"order", "orders"})
    \/ HasPhrase(ws, <<"not", "in", "my">>, {"order", "orders"})

HasInMyOrder(ws) ==
    \/ HasPhrase(ws, <<"in", "my">>, {"order", "orders"})
    \/ HasPhrase(ws, <<"from", "my">>, {"order", "orders"})

HasTimeAndNeed(ws) == HasWord(ws, {"tomorrow"}) /\ HasWord(ws, {"need"})

\* lines 412-414: issue_indicators
HasIssueIndicator(ws) ==
    HasWord(ws, {"missing"}) \/ HasPhrase(ws, <<"not", "in", "my">>, {"order", "orders"})

\* score * (m / 10)
Times(score, m) == (score * m) \div 10

\* `if cond: score *= m / 10`
TimesIf(cond, score, m) == IF cond THEN Times(score, m) ELSE score

\* LoopScore without lines 326-333 (the negation adjustments)
LoopScore_without_negation(intent, language, ws) ==
    LET s0 == RawScore(intent, language, ws)
        s3 == TimesIf(intent = "request_callback" /\ HasCallbackPhrase(ws), s0, 15)
        s4 == TimesIf(intent = "report_issue" /\ HasCallbackPhrase(ws), s3, 3)
        s5 == TimesIf(intent = "report_issue" /\ HasDiscrepancy(ws), s4, 15)
        s6 == TimesIf(intent = "report_issue" /\ HasIssuePhrase(ws), s5, 20)
        s7 == TimesIf(intent = "reject_substitution" /\ HasInMyOrder(ws), s6, 3)
        s8 == TimesIf(intent \in {"change_delivery", "query_order_status"}
                      /\ HasTimeAndNeed(ws), s7, 14)
    IN  s8

\* LoopScore without lines 341-345 (the callback penalty of report_issue)
LoopScore_without_callback_penalty(intent, language, ws) ==
    LET s0 == RawScore(intent, language, ws)
        s1 == TimesIf(intent = "confirm_substitution" /\ _has_negation(ws, language), s0, 1)
        s2 == TimesIf(intent = "reject_substitution" /\ _has_negation(ws, language), s1, 15)
        s3 == TimesIf(intent = "request_callback" /\ HasCallbackPhrase(ws), s2, 15)
        s5 == TimesIf(intent = "report_issue" /\ HasDiscrepancy(ws), s3, 15)
        s6 == TimesIf(intent = "report_issue" /\ HasIssuePhrase(ws), s5, 20)
        s7 == TimesIf(intent = "reject_substitution" /\ HasInMyOrder(ws), s6, 3)
        s8 == TimesIf(intent \in {"change_delivery", "query_order_status"}
                      /\ HasTimeAndNeed(ws), s7, 14)
    IN  s8

\* lines 314-376: the score of one intent at the end of its loop iteration
LoopScore(intent, language, ws) ==
    LET s0 == RawScore(intent, language, ws)
        s1 == TimesIf(intent = "confirm_substitution" /\ _has_negation(ws, language), s0, 1)
        s2 == TimesIf(intent = "reject_substitution" /\ _has_negation(ws, language), s1, 15)
        s3 == TimesIf(intent = "request_callback" /\ HasCallbackPhrase(ws), s2, 15)
        s4 == TimesIf(intent = "report_issue" /\ HasCallbackPhrase(ws), s3, 3)
        s5 == TimesIf(intent = "report_issue" /\ HasDiscrepancy(ws), s4, 15)
        s6 == TimesIf(intent = "report_issue" /\ HasIssuePhrase(ws), s5, 20)
        s7 == TimesIf(intent = "reject_substitution" /\ HasInMyOrder(ws), s6, 3)
        s8 == TimesIf(intent \in {"change_delivery", "query_order_status"}
                      /\ HasTimeAndNeed(ws), s7, 14)
    IN  s8

\* A dictionary that remembers insertion order: a sequence of [intent, score].
Has(d, k) == \E i \in 1..Len(d) : d[i].intent = k

Scale(d, k, m) ==
    [i \in 1..Len(d) |->
        IF d[i].intent = k THEN [d[i] EXCEPT !.score = Times(@, m)] ELSE d[i]]

Seed(d, k) == IF Has(d, k) THEN d ELSE Append(d, [intent |-> k, score |-> 700000])

ScaleIf(cond, d, k, m) == IF cond THEN Scale(d, k, m) ELSE d

SeedIf(cond, d, k) == IF cond THEN Seed(d, k) ELSE d

\* `if k not in d: d[k] = 0.7 else: d[k] *= m / 10`
SeedOrScaleIf(cond, d, k, m) ==
    IF cond THEN (IF Has(d, k) THEN Scale(d, k, m) ELSE Seed(d, k)) ELSE d

\* lines 313-378: the intents with a score above 0, in the order of the loop
LoopScores(language, ws) ==
    SelectSeq([k \in 1..Len(IntentOrder) |->
                  [intent |-> IntentOrder[k],
                   score  |-> LoopScore(IntentOrder[k], language, ws)]],
              LAMBDA e : e.score > 0)

PreOrder == "pre_order_substitution"
PostDelivery == "post_delivery_investigation"

\* lines 381-395
PreOrderAdjust(d, ws) ==
    LET d1 == Scale(d, "confirm_substitution", 18)
        d2 == Scale(d1, "reject_substitution", 18)
        d3 == Scale(d2, "query_substitution", 15)
        d4 == SeedIf(ws \in {<<"yes">>, <<"yeah">>, <<"yep">>, <<"ok">>, <<"okay">>, <<"sure">>},
                     d3, "confirm_substitution")
        d5 == SeedIf(ws \in {<<"no">>, <<"nope">>, <<"nah">>},
                     d4, "reject_substitution")
    IN  d5

\* lines 397-418
PostDeliveryAdjust(d, ws, context) ==
    LET d1 == Scale(d, "report_issue", 18)
        d2 == Scale(d1, "confirm_delivery", 15)
        d3 == Scale(d2, "query_order_status", 15)
        d4 == ScaleIf(context.proposed_solution, d3, "confirm_substitution", 15)
        d5 == ScaleIf(context.proposed_solution, d4, "reject_substitution", 15)
        d6 == SeedOrScaleIf(HasIssueIndicator(ws), d5, "report_issue", 15)
    IN  d6

\* lines 421-427
LegacyAdjust(d, context) ==
    LET legacy == context.given /\ context.conversation_stage = None
                  /\ context.mentions_substitution
        d1 == ScaleIf(legacy, d, "confirm_substitution", 15)
        d2 == ScaleIf(legacy, d1, "reject_substitution", 15)
    IN  d2

\* lines 380-419: the adjustments of the conversation stage
StageAdjust(d, ws, context) ==
    CASE context.conversation_stage = PreOrder -> PreOrderAdjust(d, ws)
      [] context.conversation_stage = PostDelivery -> PostDeliveryAdjust(d, ws, context)
      [] OTHER -> d

\* lines 305-427: intent_scores when normalization starts
intent_scores(ws, language, context) ==
    LegacyAdjust(StageAdjust(LoopScores(language, ws), ws, context), context)

RECURSIVE SumScores(_)
SumScores(d) == IF d = <<>> THEN 0 ELSE Head(d).score + SumScores(Tail(d))

RECURSIVE MaxScore(_)
MaxScore(d) == IF d = <<>> THEN 0 ELSE Max(Head(d).score, MaxScore(Tail(d)))

\* best_intent keeping the last of the items with the greatest score
best_intent_last_maximum(d) ==
    LET last == CHOOSE i \in 1..Len(d) :
                    /\ d[i].score = MaxScore(d)
                    /\ \A j \in (i + 1)..Len(d) : d[j].score < MaxScore(d)
    IN  d[last].intent

\* line 439: max() keeps the first of the items with the greatest score
best_intent(d) ==
    LET first == CHOOSE i \in 1..Len(d) :
                    /\ d[i].score = MaxScore(d)
                    /\ \A j \in 1..(i - 1) : d[j].score < MaxScore(d)
    IN  d[first].intent

\* lines 449-454, in thousandths
vague_penalty(ws, d) ==
    LET short == IF Len(ws) <= 4 THEN 850 ELSE 1000
    IN  IF Len(d) > 1 THEN (short * 900) \div 1000 ELSE short

\* base_confidence with line 436 dividing by max_score itself
base_confidence_by_max_score(d) == IF MaxScore(d) > 0 THEN Micro ELSE 0

\* lines 431-440: the best intent's score after the division by max(max_score, 1.0),
\* in millionths
base_confidence(d) == Min(MaxScore(d), Micro)

\* line 457, to the nearest thousandth: base * dominance_ratio * vague_penalty,
\* where dominance_ratio = base / (total_score / max_score)
raw_confidence(ws, d) ==
    LET base  == base_confidence(d) \div 100
        sq    == (base * base) \div 100
        ratio == ((MaxScore(d) \div 1000) * 10000) \div (SumScores(d) \div 1000)
        dom   == ((sq \div 100) * ratio) \div 100
    IN  (dom * vague_penalty(ws, d) + 500000) \div Micro

\* rule_confidence without the floor of line 460
rule_confidence_without_floor(ws, d) == Min(raw_confidence(ws, d), 950)

\* lines 457-460
rule_confidence(ws, d) == Max(Min(raw_confidence(ws, d), 950), 500)

\* lines 429-468: rule_based_intent, rule_based_confidence, and the best intent's
\* entry of rule_based_scores (millionths), for the dictionary d
rule_based(ws, d) ==
    IF d # <<>>
    THEN [intent |-> best_intent(d), confidence |-> rule_confidence(ws, d),
          score |-> base_confidence(d)]
    ELSE [intent |-> "unknown", confidence |-> 300, score |-> 0]

\* lines 304-468
RuleBased(ws, language, context) == rule_based(ws, intent_scores(ws, language, context))

\* The contexts a caller can pass, by what classify reads of them: whether the
\* mapping is non-empty, its conversation_stage, whether proposed_solution is
\* set, and whether str(context) holds 'substitution' or 'replacement'.
Context(given, stage, solution, mentions) ==
    [given |-> given, conversation_stage |-> stage,
     proposed_solution |-> solution, mentions_substitution |-> mentions]

Contexts ==
    {Context(FALSE, None, FALSE, FALSE),
     Context(TRUE, None, FALSE, FALSE),
     Context(TRUE, None, FALSE, TRUE),
     Context(TRUE, PreOrder, FALSE, FALSE),
     Context(TRUE, PostDelivery, FALSE, FALSE),
     Context(TRUE, PostDelivery, TRUE, FALSE)}

\* semantic_intent_classifier.py:104-148: the list classify returns, by its first
\* entry: EmptyList for the empty list, else an intent with examples and a
\* similarity clipped to [0, 1] (thousandths). The similarities themselves are
\* the vectorizer's and are left open.
SemanticScores == {0, 500, 1000}

\* the intents the model lets the semantic classifier put first
SemanticIntents == {"confirm_substitution", "report_issue"}

EmptyList == [intent |-> None, score |-> 0]
NotAsked == [intent |-> "not_asked", score |-> 0]

SemanticResults ==
    {EmptyList} \cup {[intent |-> i, score |-> s] : i \in SemanticIntents, s \in SemanticScores}

\* Hybrid without the test of line 479 that the semantic list is not empty
Hybrid_without_empty_list_check(rule, sem, cfg, clf) ==
    IF cfg.use_semantic_fallback /\ clf # None
       /\ (rule.confidence < cfg.semantic_threshold \/ rule.intent = "unknown")
    THEN LET weighted == sem.score * cfg.semantic_weight
         IN  IF rule.intent # "unknown"
             THEN IF weighted * 10 > rule.score * 12
                  THEN [intent |-> sem.intent,
                        confidence |-> Min(weighted \div 1000, 950),
                        path |-> "semantic_wins"]
                  ELSE [intent |-> rule.intent,
                        confidence |-> Min(Max(rule.score, weighted) \div 1000, 950),
                        path |-> "rule_kept"]
             ELSE [intent |-> sem.intent,
                   confidence |-> Min(weighted \div 1000, 950),
                   path |-> "semantic_only"]
    ELSE [intent |-> rule.intent, confidence |-> rule.confidence, path |-> "rule"]

\* Hybrid without the margin of line 490: the semantic intent wins as soon as its
\* weighted score is above the rule score
Hybrid_without_margin(rule, sem, cfg, clf) ==
    IF cfg.use_semantic_fallback /\ clf # None
       /\ (rule.confidence < cfg.semantic_threshold \/ rule.intent = "unknown")
       /\ sem # EmptyList
    THEN LET weighted == sem.score * cfg.semantic_weight
         IN  IF rule.intent # "unknown"
             THEN IF weighted > rule.score
                  THEN [intent |-> sem.intent,
                        confidence |-> Min(weighted \div 1000, 950),
                        path |-> "semantic_wins"]
                  ELSE [intent |-> rule.intent,
                        confidence |-> Min(Max(rule.score, weighted) \div 1000, 950),
                        path |-> "rule_kept"]
             ELSE [intent |-> sem.intent,
                   confidence |-> Min(weighted \div 1000, 950),
                   path |-> "semantic_only"]
    ELSE [intent |-> rule.intent, confidence |-> rule.confidence, path |-> "rule"]

\* lines 470-500: the value classify returns, for the rule-based result `rule`
\* and `sem`, the semantic classifier's answer should it be asked
Hybrid(rule, sem, cfg, clf) ==
    IF cfg.use_semantic_fallback /\ clf # None
       /\ (rule.confidence < cfg.semantic_threshold \/ rule.intent = "unknown")
       /\ sem # EmptyList
    THEN LET weighted == sem.score * cfg.semantic_weight   \* millionths
         IN  IF rule.intent # "unknown"
             THEN IF weighted * 10 > rule.score * 12
                  THEN [intent |-> sem.intent,
                        confidence |-> Min(weighted \div 1000, 950),
                        path |-> "semantic_wins"]
                  ELSE [intent |-> rule.intent,
                        confidence |-> Min(Max(rule.score, weighted) \div 1000, 950),
                        path |-> "rule_kept"]
             ELSE [intent |-> sem.intent,
                   confidence |-> Min(weighted \div 1000, 950),
                   path |-> "semantic_only"]
    ELSE [intent |-> rule.intent, confidence |-> rule.confidence, path |-> "rule"]

\* Consults with <= for the < of line 476
Consults_at_threshold(rule, cfg, clf) ==
    /\ cfg.use_semantic_fallback
    /\ clf # None
    /\ (rule.confidence <= cfg.semantic_threshold \/ rule.intent = "unknown")

\* line 476: whether classify calls the semantic classifier
Consults(rule, cfg, clf) ==
    /\ cfg.use_semantic_fallback
    /\ clf # None
    /\ (rule.confidence < cfg.semantic_threshold \/ rule.intent = "unknown")

\* classify without the early return of lines 301-302
classify_without_empty_check(text, language, context, sem, cfg, clf) ==
    Hybrid(RuleBased(Words(text), language, context), sem, cfg, clf)

\* IntentClassifier.classify
classify(text, language, context, sem, cfg, clf) ==
    IF text = <<>>
    THEN [intent |-> "unknown", confidence |-> 0, path |-> "empty"]
    ELSE Hybrid(RuleBased(Words(text), language, context), sem, cfg, clf)

(***************************************************************************)
(* The classifier as a state machine: the configuration is fixed when the  *)
(* process starts, then calls arrive one at a time.                        *)
(***************************************************************************)
\* config.py:31-35 and 97-103: the defaults, or what the environment sets
Configs ==
    {[use_semantic_fallback |-> u, semantic_threshold |-> t, semantic_weight |-> 800] :
        u \in BOOLEAN, t \in {500, 700}}

NoRequest == [op |-> None]
NoResult == [intent |-> None, confidence |-> 0, path |-> None, semantic_results |-> NotAsked]

\* intent_classifier.py:266-287
InitClassify ==
    /\ config \in Configs
    /\ semantic_classifier \in (IF config.use_semantic_fallback THEN {None, "ready"} ELSE {None})
    \* the threshold is read only when the classifier is there
    /\ (semantic_classifier = None => config.semantic_threshold = 500)
    /\ product_catalog = <<>>
    /\ session_manager = None
    /\ time = 0
    /\ pc = "idle"
    /\ request = NoRequest
    /\ result = NoResult

CallClassify ==
    /\ pc = "idle"
    /\ \E text \in Texts, language \in ClassifyLanguages, context \in Contexts :
          request' = [op |-> "classify", text |-> text, language |-> language,
                      context |-> context]
    /\ pc' = "called"
    /\ result' = NoResult
    /\ UNCHANGED <<session_manager, time, config, semantic_classifier, product_catalog>>

ReturnClassify ==
    /\ pc = "called"
    /\ request.op = "classify"
    /\ LET rule  == RuleBased(Words(request.text), request.language, request.context)
           asked == request.text # <<>> /\ Consults(rule, config, semantic_classifier)
           out(sem) == classify(request.text, request.language, request.context,
                                sem, config, semantic_classifier)
       IN  IF asked
           THEN \E sem \in SemanticResults :
                   result' = out(sem) @@ [semantic_results |-> sem]
           ELSE result' = out(EmptyList) @@ [semantic_results |-> NotAsked]
    /\ pc' = "returned"
    /\ UNCHANGED <<session_manager, time, config, semantic_classifier, product_catalog, request>>

\* the caller takes the result; the classifier keeps nothing of the call
Done ==
    /\ pc = "returned"
    /\ pc' = "idle"
    /\ request' = NoRequest
    /\ result' = NoResult
    /\ UNCHANGED <<session_manager, time, config, semantic_classifier, product_catalog>>

NextClassify == CallClassify \/ ReturnClassify \/ Done

SpecClassify == InitClassify /\ [][NextClassify]_vars

(***************************************************************************)
(* Properties of the classifier.                                           *)
(***************************************************************************)
Returned == pc = "returned" /\ request.op = "classify"

ReqWords == Words(request.text)

ReqRaw(intent) == RawScore(intent, request.language, ReqWords)

ReqLoop(intent) == LoopScore(intent, request.language, ReqWords)

ReqRule == RuleBased(ReqWords, request.language, request.context)

ReqScores == intent_scores(ReqWords, request.language, request.context)

\* the score of intent k in the dictionary d, 0 when it has none
ScoreOf(d, k) == IF Has(d, k) THEN (CHOOSE e \in {d[i] : i \in 1..Len(d)} : e.intent = k).score ELSE 0

\* C1: on every return path (empty text, rule-based, semantic only, rule and
\* semantic combined) classify returns one of the 14 intent names (the 13 intents
\* or unknown) and a confidence between 0 and 1.
C1_IntentAndConfidenceInRange ==
    Returned =>
        /\ result.intent \in Intents \cup {"unknown"}
        /\ Cardinality(Intents \cup {"unknown"}) = 14
        /\ result.confidence >= 0
        /\ result.confidence <= Milli
        /\ result.path \in {"empty", "rule", "semantic_only", "semantic_wins", "rule_kept"}

\* a call answered on the combined path, the rule-based intent kept
C1_Witness ==
    /\ Returned
    /\ result.path = "rule_kept"
    /\ result.semantic_results.intent # result.intent
    /\ result.confidence > 0

\* C2: empty text gives (unknown, 0.0) with neither the patterns nor the semantic
\* classifier consulted; a non-empty text on which no intent scores, with the
\* semantic classifier unavailable or disabled, gives (unknown, 0.3).
C2_EmptyAndNoScore ==
    Returned =>
        /\ request.text = <<>> =>
              /\ result.intent = "unknown"
              /\ result.confidence = 0
              /\ result.path = "empty"
              /\ result.semantic_results = NotAsked
        /\ (/\ request.text # <<>>
            /\ ReqScores = <<>>
            /\ (semantic_classifier = None \/ ~config.use_semantic_fallback)) =>
              /\ result.intent = "unknown"
              /\ result.confidence = 300
              /\ result.semantic_results = NotAsked

\* a text without a score, answered while the fallback is enabled but unavailable
C2_Witness ==
    /\ Returned
    /\ request.text # <<>>
    /\ ReqScores = <<>>
    /\ config.use_semantic_fallback
    /\ semantic_classifier = None
    /\ result.confidence = 300

\* the utterances C4 is about: negated, both intents matched, raw reject >= raw confirm
C4_Case ==
    /\ Returned
    /\ _has_negation(ReqWords, request.language)
    /\ ReqRaw("confirm_substitution") > 0
    /\ ReqRaw("reject_substitution") >= ReqRaw("confirm_substitution")

\* lines 326-333: confirm_substitution times 0.1 and reject_substitution times 1.5
\* (the latter times 0.3 more when 'in my order' is in the text)
C4_Factors ==
    /\ ReqLoop("confirm_substitution") = Times(ReqRaw("confirm_substitution"), 1)
    /\ ReqLoop("reject_substitution") =
          TimesIf(HasInMyOrder(ReqWords), Times(ReqRaw("reject_substitution"), 15), 3)

\* C4 as stated: for a negated utterance in which both intents matched and the
\* raw reject score is at least the raw confirm score, classify does not return
\* confirm_substitution, in any conversation stage.
C4_NeverConfirm ==
    C4_Case => C4_Factors /\ result.intent # "confirm_substitution"

\* C4, amended: for such an utterance the negation factors apply and the
\* rule-based stage never selects confirm_substitution in any conversation stage;
\* classify returns confirm_substitution only when the semantic classifier was
\* consulted, which takes a semantic threshold above the default 0.5, and its
\* top intent won.
C4_RuleNeverConfirms ==
    C4_Case =>
        /\ C4_Factors
        /\ ReqRule.intent # "confirm_substitution"
        /\ result.intent = "confirm_substitution" =>
              /\ result.path = "semantic_wins"
              /\ result.semantic_results.intent = "confirm_substitution"
              /\ config.semantic_threshold > 500

\* a negated utterance with both intents matched, answered reject_substitution
\* in the pre-order stage
C4_Witness ==
    /\ C4_Case
    /\ request.context.conversation_stage = PreOrder
    /\ ReqRaw("reject_substitution") = ReqRaw("confirm_substitution")
    /\ result.intent = "reject_substitution"

BareAffirmative == {<<"yes">>, <<"yeah">>, <<"yep">>, <<"ok">>, <<"okay">>, <<"sure">>}
BareNegative == {<<"no">>, <<"nope">>, <<"nah">>}

\* C5: in the stage pre_order_substitution a bare yes/yeah/yep/ok/okay/sure is
\* classified confirm_substitution and a bare no/nope/nah reject_substitution,
\* each with confidence at least 0.5, whether the score is a pattern's or the 0.7
\* seed, which is applied only when the intent has no pattern score.
C5_BareReplies ==
    (Returned /\ request.context.conversation_stage = PreOrder) =>
        /\ ReqWords \in BareAffirmative =>
              /\ result.intent = "confirm_substitution"
              /\ result.confidence >= 500
              /\ ScoreOf(ReqScores, "confirm_substitution") =
                    IF ReqRaw("confirm_substitution") > 0
                    THEN Times(ReqLoop("confirm_substitution"), 18) ELSE 700000
        /\ ReqWords \in BareNegative =>
              /\ result.intent = "reject_substitution"
              /\ result.confidence >= 500
              /\ ScoreOf(ReqScores, "reject_substitution") =
                    IF ReqRaw("reject_substitution") > 0
                    THEN Times(ReqLoop("reject_substitution"), 18) ELSE 700000

\* a bare yes in Finnish, which no Finnish pattern matches: the seed decides
C5_Witness ==
    /\ Returned
    /\ request.context.conversation_stage = PreOrder
    /\ ReqWords \in BareAffirmative
    /\ ReqRaw("confirm_substitution") = 0
    /\ result.intent = "confirm_substitution"
    /\ result.confidence = 500

\* the utterances C8 is about
C8_Case ==
    /\ Returned
    /\ request.context.conversation_stage = None
    /\ HasCallbackPhrase(ReqWords)
    /\ ReqRaw("report_issue") > 0
    /\ ReqRaw("request_callback") >= ReqRaw("report_issue")

\* C8: with a callback phrase in the text request_callback is multiplied by 1.5
\* and report_issue by 0.3, so with no conversation stage, both intents matched
\* and raw request_callback >= raw report_issue, the adjusted request_callback
\* score is strictly above the adjusted report_issue score, the x1.5 discrepancy
\* and x2.0 issue-phrase boosts included, and classify does not return report_issue.
C8_CallbackPriority ==
    C8_Case =>
        /\ ReqLoop("request_callback") = Times(ReqRaw("request_callback"), 15)
        /\ ReqLoop("report_issue") =
              TimesIf(HasIssuePhrase(ReqWords),
                      TimesIf(HasDiscrepancy(ReqWords),
                              Times(ReqRaw("report_issue"), 3), 15), 20)
        /\ ScoreOf(ReqScores, "request_callback") > ScoreOf(ReqScores, "report_issue")
        /\ result.intent # "report_issue"

\* both boosts of report_issue applied, the semantic classifier consulted and
\* answering report_issue, and the rule-based request_callback kept
C8_Witness ==
    /\ C8_Case
    /\ HasDiscrepancy(ReqWords)
    /\ HasIssuePhrase(ReqWords)
    /\ result.semantic_results.intent = "report_issue"
    /\ result.intent = "request_callback"

(***************************************************************************)
(* text_normalizer.py                                                      *)
(*                                                                         *)
(* Here a text is a sequence of items, each a word or a single blank; two  *)
(* words never stand side by side, so every word is delimited as \b wants. *)
(***************************************************************************)
MaxItems == 5

Blank == " "

NormalizerWords == {"um", "you", "know", "number", "sign", "to", "don't", "no"}

RawTexts ==
    {t \in UNION {[1..k -> NormalizerWords \cup {Blank}] : k \in 0..MaxItems} :
        \A i \in 1..(Len(t) - 1) : t[i] # Blank => t[i + 1] = Blank}

RECURSIVE strip_left(_)
strip_left(t) == IF t # <<>> /\ Head(t) = Blank THEN strip_left(Tail(t)) ELSE t

RECURSIVE squeeze(_)
\* re.sub(r'\s+', ' ', text)
squeeze(t) ==
    IF t = <<>> THEN <<>>
    ELSE IF Head(t) = Blank THEN <<Blank>> \o squeeze(strip_left(t))
    ELSE <<Head(t)>> \o squeeze(Tail(t))

\* text.strip()
strip(t) ==
    LET l == strip_left(t)
    IN  IF l # <<>> /\ l[Len(l)] = Blank THEN SubSeq(l, 1, Len(l) - 1) ELSE l

RECURSIVE sub(_, _, _)
\* re.sub(pattern, repl, text): every match of the items p, left to right,
\* replaced by the items r
sub(p, r, t) ==
    IF Len(t) < Len(p) THEN t
    ELSE IF SubSeq(t, 1, Len(p)) = p
         THEN r \o sub(p, r, SubSeq(t, Len(p) + 1, Len(t)))
         ELSE <<Head(t)>> \o sub(p, r, Tail(t))

\* FILLER_WORDS, in the order of the lists, those the vocabulary can match
FILLER_WORDS(language) ==
    IF language = "fi" THEN << <<"no">> >>
    ELSE << <<"um">>, <<"you", Blank, "know">> >>

RECURSIVE remove_each(_, _)
remove_each(fillers, t) ==
    IF fillers = <<>> THEN t
    ELSE remove_each(Tail(fillers), sub(Head(fillers), <<>>, t))

_remove_filler_words(t, language) == remove_each(FILLER_WORDS(language), t)

_normalize_contractions(t, language) ==
    IF language # "en" THEN t ELSE sub(<<"don't">>, <<"do", Blank, "not">>, t)

_fix_transcription_errors(t, language) ==
    IF language # "en" THEN t
    ELSE sub(<<"number", Blank, "sign">>, <<"#">>, sub(<<"to">>, <<"two">>, t))

\* TextNormalizer.normalize
normalize(t, language) ==
    IF t = <<>> THEN t
    ELSE strip(squeeze(
            _fix_transcription_errors(
                _normalize_contractions(
                    _remove_filler_words(strip(squeeze(t)), language),
                    language),
                language)))

\* the defaults of config.py; the normalizer reads none of them
DefaultConfig ==
    [use_semantic_fallback |-> TRUE, semantic_threshold |-> 500, semantic_weight |-> 800,
     fuzzy_threshold |-> 700, max_fuzzy_results |-> 5]

InitNormalize ==
    /\ config = DefaultConfig
    /\ semantic_classifier = None
    /\ product_catalog = <<>>
    /\ session_manager = None
    /\ time = 0
    /\ pc = "idle"
    /\ request = NoRequest
    /\ result = NoResult

CallNormalize ==
    /\ pc = "idle"
    /\ \E text \in RawTexts, language \in Languages :
          request' = [op |-> "normalize", text |-> text, language |-> language,
                      again |-> FALSE]
    /\ pc' = "called"
    /\ result' = NoResult
    /\ UNCHANGED <<session_manager, time, config, semantic_classifier, product_catalog>>

ReturnNormalize ==
    /\ pc = "called"
    /\ request.op = "normalize"
    /\ result' = [text |-> normalize(request.text, request.language)]
    /\ pc' = "returned"
    /\ UNCHANGED <<session_manager, time, config, semantic_classifier, product_catalog, request>>

\* the caller hands the normalized text to normalize once more
Renormalize ==
    /\ pc = "returned"
    /\ request.op = "normalize"
    /\ ~request.again
    /\ request' = [request EXCEPT !.text = result.text, !.again = TRUE]
    /\ pc' = "called"
    /\ result' = NoResult
    /\ UNCHANGED <<session_manager, time, config, semantic_classifier, product_catalog>>

NextNormalize == CallNormalize \/ ReturnNormalize \/ Renormalize \/ Done

SpecNormalize == InitNormalize /\ [][NextNormalize]_vars

\* C3: normalize is idempotent: normalizing a normalized text returns it unchanged.
C3_Idempotent ==
    (pc = "returned" /\ request.op = "normalize" /\ request.again) =>
        result.text = request.text

(***************************************************************************)
(* The entity extractor (entity_extractor.py).                             *)
(*                                                                         *)
(* A text is a list of tokens and a final question mark that is there or   *)
(* not; Milk is the only capitalised word.  Confidences are in millionths. *)
(* TextBlob and rapidfuzz are libraries outside the repository: what they  *)
(* answer is chosen when extract returns.                                  *)
(***************************************************************************)
EntityTokens ==
    {<<"Milk">>, <<"oat">>, <<"wrong">>, <<"missing">>, <<"did", "not", "arrive">>,
     <<"today">>, <<"order", "ab123">>, <<"2", "kg">>, <<"thanks">>,
     <<"thank", "you">>, <<"where">>, <<"cancel">>}

EntityTexts ==
    {[tokens |-> t, question |-> q] :
        t \in UNION {[1..n -> EntityTokens] : n \in 0..MaxTokens}, q \in BOOLEAN}

\* str.lower(), word by word
text_lower(ws) ==
    [i \in 1..Len(ws) |->
        CASE ws[i] = "Milk" -> "milk" [] ws[i] = "Oat" -> "oat" [] OTHER -> ws[i]]

\* `p in text` for a phrase p of whole words
Contains(ws, p) ==
    \E i \in 1..(Len(ws) - Len(p) + 1) : SubSeq(ws, i, i + Len(p) - 1) = p

\* list[:n]
Take(s, n) == SubSeq(s, 1, Min(Len(s), n))

\* the elements of s whose key no earlier element has, in the order of s; keys[i]
\* is the key of s[i]
unique(s, keys) ==
    LET tagged == [i \in 1..Len(s) |->
                      [e |-> s[i], first |-> \A j \in 1..(i - 1) : keys[j] # keys[i]]]
        kept   == SelectSeq(tagged, LAMBDA x : x.first)
    IN  [i \in 1..Len(kept) |-> kept[i].e]

\* what ProductCatalog._normalize_catalog makes of a file that lists Oat Milk and
\* Milk, and the catalog of an installation without a file
Catalogs ==
    {<<>>,
     <<[name |-> <<"Oat", "Milk">>, gtin |-> "6410000000011",
        name_variants |-> {<<"oat", "milk">>, <<"OAT", "MILK">>, <<"Oat", "Milk">>, <<"Oat">>}],
       [name |-> <<"Milk">>, gtin |-> "6410000000028",
        name_variants |-> {<<"milk">>, <<"MILK">>, <<"Milk">>}]>>}

RECURSIVE product_words(_)
\* re.findall(r'\b([A-Z][a-z]+(?:\s+[A-Z][a-z]+)*)\b', text): the maximal runs of
\* capitalised words
product_words(ws) ==
    LET cap(w) == text_lower(<<w>>) # <<w>>
    IN  IF ws = <<>> THEN <<>>
        ELSE IF ~cap(Head(ws)) THEN product_words(Tail(ws))
        ELSE LET n == CHOOSE k \in 1..Len(ws) :
                          /\ \A i \in 1..k : cap(ws[i])
                          /\ (k = Len(ws) \/ ~cap(ws[k + 1]))
             IN  <<SubSeq(ws, 1, n)>> \o product_words(SubSeq(ws, n + 1, Len(ws)))

\* one turn of the loop over the catalog
match_product(product, tl) ==
    LET entry(c)      == [name |-> product.name, gtin |-> product.gtin, confidence |-> c]
        product_name  == text_lower(product.name)
        matched_words == Cardinality({i \in 1..Len(product_name) :
                                         Contains(tl, <<product_name[i]>>)})
    IN  IF product_name # <<>> /\ Contains(tl, product_name) THEN <<entry(800000)>>
        ELSE (IF \E v \in product.name_variants : Contains(tl, text_lower(v))
              THEN <<entry(700000)>> ELSE <<>>)
             \o (IF Len(product_name) > 1 /\ matched_words * 10 >= Len(product_name) * 6
                 THEN <<entry(500000)>> ELSE <<>>)

\* products after the loop over a catalog that is not empty
catalog_products(ws, catalog) ==
    Words([i \in 1..Len(catalog) |-> match_product(catalog[i], text_lower(ws))])

\* the answers _fuzzy_match_products can give: products of the catalog that
\* rapidfuzz scores at the threshold or above, best first; none when it is not
\* installed or not asked
_fuzzy_match_products(ws, catalog) ==
    IF catalog = <<>> \/ Len(catalog_products(ws, catalog)) >= 3 THEN {<<>>}
    ELSE {<<>>, <<[name |-> catalog[1].name, gtin |-> catalog[1].gtin, confidence |-> 900000]>>}

_extract_products(ws, context, catalog, max_fuzzy_results, fuzzy_products) ==
    IF catalog = <<>>
    THEN LET names == SelectSeq(Take(product_words(ws), 3), LAMBDA word : Len(word) <= 4)
         IN  [i \in 1..Len(names) |-> [name |-> names[i], gtin |-> None, confidence |-> 300000]]
    ELSE LET exact    == catalog_products(ws, catalog)
             products ==
                 exact \o SelectSeq(fuzzy_products, LAMBDA fp :
                     \A i \in 1..Len(exact) : text_lower(exact[i].name) # text_lower(fp.name))
             hits     == IF context.proposed_substitute = <<>> THEN {}
                         ELSE {i \in 1..Len(products) :
                                  Contains(text_lower(products[i].name),
                                           text_lower(context.proposed_substitute))}
             boosted  ==
                 IF hits = {} THEN products
                 ELSE LET i == CHOOSE h \in hits : \A j \in hits : h <= j
                      IN  <<[products[i] EXCEPT !.confidence = Min(Micro, (@ * 13) \div 10)]>>
                          \o SubSeq(products, 1, i - 1) \o SubSeq(products, i + 1, Len(products))
         IN  Take(unique(boosted, [i \in 1..Len(boosted) |-> <<boosted[i].gtin, boosted[i].name>>]),
                  max_fuzzy_results)

\* of the quantity patterns the vocabulary matches the one for kilograms; 2 is its
\* only number
_extract_quantities(tl) ==
    LET units      == SelectSeq([i \in 1..Len(tl) |->
                                    IF i < Len(tl) /\ tl[i] = "2" /\ tl[i + 1] = "kg"
                                    THEN tl[i + 1] ELSE None],
                                LAMBDA u : u # None)
        standalone == Take(SelectSeq(tl, LAMBDA w : w = "2"), 3)
    IN  Take([i \in 1..Len(units) |-> [value |-> 2, unit |-> units[i], confidence |-> 800000]]
             \o [i \in 1..Len(standalone) |->
                    [value |-> 2, unit |-> "unit", confidence |-> 400000]],
             5)

\* r'order\s#?\s*([A-Z0-9]{3,})' is the pattern the vocabulary matches
_extract_order_numbers(tl, language) ==
    LET found == IF language # "en" THEN <<>>
                 ELSE SelectSeq([i \in 1..Len(tl) |->
                                    IF i < Len(tl) /\ tl[i] = "order" /\ tl[i + 1] = "ab123"
                                    THEN "AB123" ELSE None],
                                LAMBDA v : v # None)
        order_numbers == [i \in 1..Len(found) |-> [value |-> found[i], confidence |-> 800000]]
    IN  Take(unique(order_numbers, found), 5)

_extract_dates(tl, language) ==
    LET rel_dates == IF language = "en" THEN <<"today">> ELSE <<>>
        found     == SelectSeq(rel_dates, LAMBDA date_word : Contains(tl, <<date_word>>))
        dates     == [i \in 1..Len(found) |->
                         [value |-> found[i], type |-> "relative", confidence |-> 800000]]
    IN  Take(unique(dates, found), 5)

_extract_reasons(tl, language) ==
    LET keywords == IF language # "en" THEN <<>>
                    ELSE <<[type |-> "missing", value |-> <<"missing">>],
                           [type |-> "wrong", value |-> <<"wrong">>]>>
        phrases  == IF language # "en" THEN <<>>
                    ELSE <<[type |-> "missing", value |-> <<"did", "not", "arrive">>]>>
        found    == SelectSeq(keywords, LAMBDA k : Contains(tl, k.value))
        more     == SelectSeq(phrases, LAMBDA p :
                        /\ Contains(tl, p.value)
                        /\ \A i \in 1..Len(found) : found[i].type # p.type)
    IN  Take([i \in 1..Len(found) |->
                 [type |-> found[i].type, value |-> found[i].value, confidence |-> 700000]]
             \o [i \in 1..Len(more) |->
                    [type |-> more[i].type, value |-> more[i].value, confidence |-> 800000]],
             5)

\* EntityExtractor._has_negation
has_negation(tl, language) == language = "en" /\ Contains(tl, <<"not">>)

has_cancel(tl) == Contains(tl, <<"cancel">>)

is_question(text) ==
    text.question \/ (text.tokens # <<>> /\ Head(Words(text.tokens)) = "where")

\* sentiment_counts without lines 570-573: a cancel word leaves the positive
\* count where it is
sentiment_counts_without_cancel_override(tl, language) ==
    LET pos_words   == IF language = "en"
                       THEN {<<"thanks">>, <<"thank", "you">>, <<"thank">>} ELSE {}
        neg_words   == IF language = "en" THEN {<<"wrong">>, <<"missing">>} ELSE {}
        pos_phrases == IF language = "en" THEN {<<"thank", "you">>} ELSE {}
        hits(S)     == Cardinality({p \in S : Contains(tl, p)})
        positive_count == hits(pos_words) + 2 * hits(pos_phrases)
        negative_count == hits(neg_words)
        moved       == positive_count > 0 /\ has_negation(tl, language)
    IN  [positive |-> IF moved THEN 0 ELSE positive_count,
         negative |-> IF moved THEN negative_count + positive_count
                      ELSE IF has_negation(tl, language) /\ negative_count = 0 THEN 1
                      ELSE negative_count]

\* positive_count and negative_count once negation and cancel words have moved
\* the positive count over
sentiment_counts(tl, language) ==
    LET pos_words   == IF language = "en"
                       THEN {<<"thanks">>, <<"thank", "you">>, <<"thank">>} ELSE {}
        neg_words   == IF language = "en" THEN {<<"wrong">>, <<"missing">>} ELSE {}
        pos_phrases == IF language = "en" THEN {<<"thank", "you">>} ELSE {}
        hits(S)     == Cardinality({p \in S : Contains(tl, p)})
        positive_count == hits(pos_words) + 2 * hits(pos_phrases)
        negative_count == hits(neg_words)
        moved       == positive_count > 0 /\ (has_negation(tl, language) \/ has_cancel(tl))
    IN  [positive |-> IF moved THEN 0 ELSE positive_count,
         negative |-> IF moved THEN negative_count + positive_count
                      ELSE IF has_negation(tl, language) /\ negative_count = 0 THEN 1
                      ELSE negative_count]

Sentiment(polarity, confidence, method) ==
    [polarity |-> polarity, confidence |-> confidence, method |-> method]

_extract_sentiment_patterns_without_question_default(text, language, detected_intent) ==
    LET c == sentiment_counts(text_lower(Words(text.tokens)), language)
    IN  IF /\ detected_intent \in {"request_callback", "query_order_status",
                                   "query_products", "query_substitution"}
           /\ c.negative <= 1 /\ c.positive <= 1
        THEN Sentiment("neutral", 500000, "pattern+context")
        ELSE IF detected_intent = "report_issue"
        THEN Sentiment("negative", Max(600000, Min(400000 + c.negative * 150000, 950000)),
                       "pattern+context")
        ELSE IF c.negative > c.positive
        THEN Sentiment("negative", Min(400000 + c.negative * 150000, 950000), "pattern")
        ELSE IF c.positive > c.negative
        THEN Sentiment("positive", Min(400000 + c.positive * 150000, 950000), "pattern")
        ELSE Sentiment("neutral", 500000, "pattern")

_extract_sentiment_patterns(text, language, detected_intent) ==
    LET c == sentiment_counts(text_lower(Words(text.tokens)), language)
    IN  IF is_question(text) /\ ~(c.negative > 2 \/ c.positive > 2)
        THEN Sentiment("neutral", 500000, "pattern")
        ELSE IF /\ detected_intent \in {"request_callback", "query_order_status",
                                        "query_products", "query_substitution"}
                /\ c.negative <= 1 /\ c.positive <= 1
        THEN Sentiment("neutral", 500000, "pattern+context")
        ELSE IF detected_intent = "report_issue"
        THEN Sentiment("negative", Max(600000, Min(400000 + c.negative * 150000, 950000)),
                       "pattern+context")
        ELSE IF c.negative > c.positive
        THEN Sentiment("negative", Min(400000 + c.negative * 150000, 950000), "pattern")
        ELSE IF c.positive > c.negative
        THEN Sentiment("positive", Min(400000 + c.positive * 150000, 950000), "pattern")
        ELSE Sentiment("neutral", 500000, "pattern")

\* blob.sentiment.polarity, as a list: empty when TextBlob is not installed, is not
\* asked (the language is not English) or raises
TextBlob(language) ==
    IF language = "en" THEN {<<>>, <<-500000>>, <<0>>, <<500000>>} ELSE {<<>>}

_extract_sentiment(text, language, detected_intent, polarity) ==
    LET tl     == text_lower(Words(text.tokens))
        asked  == IF is_question(text) THEN 0
                  ELSE IF has_cancel(tl) /\ polarity[1] > 0 THEN -300000
                  ELSE polarity[1]
        textblob_score == IF detected_intent = "report_issue" /\ asked > -200000
                          THEN -400000 ELSE asked
        flipped == has_negation(tl, language) /\ textblob_score > 50000
        textblob_polarity ==
            IF flipped \/ textblob_score < -50000 THEN "negative"
            ELSE IF textblob_score > 50000 THEN "positive"
            ELSE "neutral"
        magnitude == Min(Max(textblob_score, -textblob_score), Micro)
        textblob_confidence ==
            IF flipped THEN Min(magnitude + 200000, Micro)
            ELSE IF textblob_polarity = "neutral" THEN 300000
            ELSE magnitude
        pattern_result == _extract_sentiment_patterns(text, language, detected_intent)
    IN  IF polarity = <<>> THEN pattern_result
        ELSE IF pattern_result.polarity = textblob_polarity
        THEN Sentiment(textblob_polarity,
                       Min(((textblob_confidence * 6 + pattern_result.confidence * 4) * 12)
                               \div 100, Micro),
                       "textblob+pattern")
        ELSE IF pattern_result.confidence > 600000
        THEN Sentiment(pattern_result.polarity, pattern_result.confidence, "textblob+pattern")
        ELSE Sentiment(textblob_polarity, textblob_confidence, "textblob+pattern")

\* of the urgency patterns the vocabulary matches the first English one, by today
_extract_urgency(tl, language) ==
    LET urgency_score == IF language = "en" THEN Occ(tl, {"today"}) * 400000 ELSE 0
    IN  IF urgency_score > 300000
        THEN [level |-> "high", confidence |-> Min(urgency_score, Micro)]
        ELSE IF urgency_score > 100000
        THEN [level |-> "medium", confidence |-> Min(urgency_score, 700000)]
        ELSE [level |-> "low", confidence |-> 300000]

boost_without_cap(entity_type, priority_entities, entities) ==
    LET up(e) == [e EXCEPT !.confidence = (@ * 12) \div 10]
    IN  IF ~Contains(priority_entities, <<entity_type>>) THEN entities
        ELSE IF entity_type \in {"sentiment", "urgency"} THEN up(entities)
        ELSE [i \in 1..Len(entities) |-> up(entities[i])]

\* the priority boost of extract, on a list or on a single entity
\* the boost applied to every entity type, named or not
boost_every_type(entity_type, priority_entities, entities) ==
    LET up(e) == [e EXCEPT !.confidence = Min(Micro, (@ * 12) \div 10)]
    IN  IF priority_entities = <<>> THEN entities
        ELSE IF entity_type \in {"sentiment", "urgency"} THEN up(entities)
        ELSE [i \in 1..Len(entities) |-> up(entities[i])]

boost(entity_type, priority_entities, entities) ==
    LET up(e) == [e EXCEPT !.confidence = Min(Micro, (@ * 12) \div 10)]
    IN  IF ~Contains(priority_entities, <<entity_type>>) THEN entities
        ELSE IF entity_type \in {"sentiment", "urgency"} THEN up(entities)
        ELSE [i \in 1..Len(entities) |-> up(entities[i])]

extract(r, catalog, max_fuzzy_results, polarity, fuzzy_products) ==
    LET ws == Words(r.text.tokens)
        tl == text_lower(ws)
        p  == r.priority_entities
    IN  [products      |-> boost("products", p,
                               _extract_products(ws, r.context, catalog, max_fuzzy_results,
                                                 fuzzy_products)),
         quantities    |-> boost("quantities", p, _extract_quantities(tl)),
         order_numbers |-> boost("order_numbers", p, _extract_order_numbers(tl, r.language)),
         dates         |-> boost("dates", p, _extract_dates(tl, r.language)),
         reasons       |-> boost("reasons", p, _extract_reasons(tl, r.language)),
         sentiment     |-> boost("sentiment", p,
                               _extract_sentiment(r.text, r.language, r.detected_intent,
                                                  polarity)),
         urgency       |-> boost("urgency", p, _extract_urgency(tl, r.language)),
         language      |-> r.language]

InitExtract ==
    /\ config = DefaultConfig
    /\ semantic_classifier = None
    /\ product_catalog \in Catalogs
    /\ session_manager = None
    /\ time = 0
    /\ pc = "idle"
    /\ request = NoRequest
    /\ result = NoResult

CallExtract ==
    /\ pc = "idle"
    \* context: the substitute the caller proposed, empty for no context or no such key
    /\ \E text \in EntityTexts, language \in Languages,
          context \in {[proposed_substitute |-> <<>>], [proposed_substitute |-> <<"Milk">>]},
          priority_entities \in {<<>>, <<"reasons", "sentiment">>},
          detected_intent \in {None, "report_issue", "request_callback"} :
          request' = [op |-> "extract", text |-> text, language |-> language,
                      context |-> context, priority_entities |-> priority_entities,
                      detected_intent |-> detected_intent]
    /\ pc' = "called"
    /\ result' = NoResult
    /\ UNCHANGED <<session_manager, time, config, semantic_classifier, product_catalog>>

ReturnExtract ==
    /\ pc = "called"
    /\ request.op = "extract"
    /\ \E polarity \in TextBlob(request.language),
          fuzzy_products \in _fuzzy_match_products(Words(request.text.tokens), product_catalog) :
          result' = extract(request, product_catalog, config.max_fuzzy_results,
                            polarity, fuzzy_products)
    /\ pc' = "returned"
    /\ UNCHANGED <<session_manager, time, config, semantic_classifier, product_catalog, request>>

NextExtract == CallExtract \/ ReturnExtract \/ Done

SpecExtract == InitExtract /\ [][NextExtract]_vars

(***************************************************************************)
(* Properties of the entity extractor.                                     *)
(***************************************************************************)
Extracted == pc = "returned" /\ request.op = "extract"

ReqCounts == sentiment_counts(text_lower(Words(request.text.tokens)), request.language)

WeakQuestion ==
    is_question(request.text) /\ ReqCounts.positive <= 2 /\ ReqCounts.negative <= 2

Descending(entities) ==
    \A i \in 1..(Len(entities) - 1) : entities[i].confidence >= entities[i + 1].confidence

\* C6: when the detected intent is report_issue the returned sentiment polarity is negative.
C6_ReportIssueNegative ==
    (Extracted /\ request.detected_intent = "report_issue") =>
        result.sentiment.polarity = "negative"

\* C7 (as stated): a question with a weak sentiment signal gets polarity neutral.
C7_WeakQuestionNeutral ==
    (Extracted /\ WeakQuestion) => result.sentiment.polarity = "neutral"

\* C7 (amended): a question with a weak sentiment signal gets polarity neutral when
\* the detected intent is not report_issue.
C7_WeakQuestionNeutralUnlessReportIssue ==
    (Extracted /\ WeakQuestion /\ request.detected_intent # "report_issue") =>
        result.sentiment.polarity = "neutral"

C7_Witness ==
    /\ Extracted
    /\ WeakQuestion
    /\ request.detected_intent # "report_issue"
    /\ ReqCounts.negative = 2
    /\ result.sentiment.method = "textblob+pattern"
    /\ result.sentiment.polarity = "neutral"

\* C9: the returned product list has no two entries with the same (gtin, name) pair
\* and at most 5 entries.
C9_UniqueProductsAtMostFive ==
    Extracted =>
        /\ Len(result.products) <= 5
        /\ \A i, j \in 1..Len(result.products) :
              (i # j) => <<result.products[i].gtin, result.products[i].name>>
                           # <<result.products[j].gtin, result.products[j].name>>

\* C10: every returned entity list has at most 5 entries in descending order of
\* confidence (after a first product that matches the proposed substitute), and
\* order numbers and dates hold no value twice.
C10_ListsCappedOrderedUnique ==
    Extracted =>
        /\ \A l \in {"products", "quantities", "order_numbers", "dates", "reasons"} :
              Len(result[l]) <= 5
        /\ \A l \in {"quantities", "order_numbers", "dates", "reasons"} :
              Descending(result[l])
        /\ IF /\ request.context.proposed_substitute # <<>>
              /\ result.products # <<>>
              /\ Contains(text_lower(result.products[1].name),
                          text_lower(request.context.proposed_substitute))
           THEN Descending(Tail(result.products))
           ELSE Descending(result.products)
        /\ \A l \in {"order_numbers", "dates"} :
              \A i, j \in 1..Len(result[l]) : (i # j) => result[l][i].value # result[l][j].value

EntityLists == {"products", "quantities", "order_numbers", "dates", "reasons"}

\* C11: every confidence of an extraction result (each entity of the five lists,
\* the sentiment and the urgency) lies in [0,1], after the proposed_substitute,
\* agreement and priority boosts.
C11_ConfidencesInUnitInterval ==
    Extracted =>
        /\ \A l \in EntityLists : \A i \in 1..Len(result[l]) :
              result[l][i].confidence \in 0..Micro
        /\ result.sentiment.confidence \in 0..Micro
        /\ result.urgency.confidence \in 0..Micro

\* a proposed substitute whose x1.3 boost and a prioritised sentiment whose x1.2
\* boost both reach the cap
C11_Witness ==
    /\ Extracted
    /\ request.context.proposed_substitute # <<>>
    /\ request.priority_entities # <<>>
    /\ result.products # <<>>
    /\ result.products[1].confidence = Micro
    /\ result.sentiment.confidence = Micro

(***************************************************************************)
(* More properties of the classifier.                                      *)
(***************************************************************************)
\* what classify returns for the request when the semantic fallback is disabled
ReqRuleOnly ==
    classify(request.text, request.language, request.context, EmptyList,
             [config EXCEPT !.use_semantic_fallback = FALSE], None)

\* C12: when the semantic classifier is unavailable (it was not constructed, or
\* its classify call returns an empty list) classify returns the rule-based
\* intent and confidence it returns with the semantic fallback disabled.
C12_DegradesToRuleBased ==
    (Returned /\ (semantic_classifier = None \/ result.semantic_results = EmptyList)) =>
        /\ result.intent = ReqRuleOnly.intent
        /\ result.confidence = ReqRuleOnly.confidence

\* the classifier is there and asked, answers with an empty list, and the
\* rule-based side has an intent of its own
C12_Witness ==
    /\ Returned
    /\ config.use_semantic_fallback
    /\ semantic_classifier # None
    /\ result.semantic_results = EmptyList
    /\ result.intent \notin {"unknown", None}
    /\ result.confidence = ReqRule.confidence

\* a call on a text that is not empty, with the fallback enabled and the
\* semantic classifier available
HybridCall ==
    /\ Returned
    /\ request.text # <<>>
    /\ config.use_semantic_fallback
    /\ semantic_classifier # None

SemanticAsked == result.semantic_results # NotAsked

SemanticAnswered == SemanticAsked /\ result.semantic_results # EmptyList

\* semantic_score * semantic_weight, in millionths
ReqWeighted == result.semantic_results.score * config.semantic_weight

C13_ConsultedExactlyWhenWeak ==
    HybridCall =>
        (SemanticAsked <=>
            (ReqRule.confidence < config.semantic_threshold \/ ReqRule.intent = "unknown"))

\* C13 (as stated): the semantic classifier is consulted exactly when the rule
\* confidence is below the threshold or the rule intent is unknown; without a rule
\* result the top semantic result is returned with its score capped at 0.95; with
\* both, the semantic intent is returned when weighted_semantic > rule_score * 1.2
\* and otherwise the rule intent with score max(rule_score, weighted_semantic).
C13_HybridAsStated ==
    /\ C13_ConsultedExactlyWhenWeak
    /\ (HybridCall /\ SemanticAnswered) =>
          IF ReqRule.intent = "unknown"
          THEN /\ result.intent = result.semantic_results.intent
               /\ result.confidence = Min(result.semantic_results.score, 950)
          ELSE IF ReqWeighted * 10 > ReqRule.score * 12
          THEN result.intent = result.semantic_results.intent
          ELSE /\ result.intent = ReqRule.intent
               /\ result.confidence = Max(ReqRule.score, ReqWeighted) \div 1000

\* C13 (amended): as stated, but a semantic result that is used is returned with
\* its weighted score semantic_score * semantic_weight capped at 0.95, and the
\* rule intent that is kept with min(max(rule_score, weighted_semantic), 0.95).
C13_HybridWeightedAndCapped ==
    /\ C13_ConsultedExactlyWhenWeak
    /\ (HybridCall /\ SemanticAnswered) =>
          IF ReqRule.intent = "unknown" \/ ReqWeighted * 10 > ReqRule.score * 12
          THEN /\ result.intent = result.semantic_results.intent
               /\ result.confidence = Min(ReqWeighted \div 1000, 950)
          ELSE /\ result.intent = ReqRule.intent
               /\ result.confidence = Min(Max(ReqRule.score, ReqWeighted) \div 1000, 950)

\* both sides have a result, the rule intent is kept and its score of 1.0 is capped
C13_Witness ==
    /\ HybridCall
    /\ SemanticAnswered
    /\ ReqRule.intent # "unknown"
    /\ ReqRule.score = Micro
    /\ ReqWeighted > 0
    /\ result.intent = ReqRule.intent
    /\ result.intent # result.semantic_results.intent
    /\ result.confidence = 950

(***************************************************************************)
(* The parse functions of app.py on the session manager                    *)
(* (session_manager.py), called from parallel request threads.             *)
(*                                                                         *)
(* A `with self._lock:` block is one step: the lock excludes every other   *)
(* block, and no block waits for anything.  What runs between two blocks   *)
(* is a step of its own.  The session dicts live in                        *)
(* session_manager.objects; _sessions and the threads hold their indexes,  *)
(* so that a dict that _sessions no longer holds can still be written to.  *)
(* The intent that classify returns for the text and the merged context    *)
(* is any of ParseIntents here; the timestamp and the entities of a        *)
(* history entry, which nothing reads, are left out.                       *)
(***************************************************************************)
Threads == {1, 2}

MaxCalls == 3

MaxTime == 3

ParseIntents == {"confirm_substitution", "report_issue"}

\* app.py:173-177, 213-217: the context a parse function starts from
stage_context(op, context) ==
    CASE op = "parse_pre_order" ->
            [conversation_stage |-> "pre_order_substitution"] @@ context
      [] op = "parse_post_delivery" ->
            [conversation_stage |-> "post_delivery_investigation"] @@ context
      [] OTHER -> context

\* expired measured from the last activity instead of the creation
expired_since_last_activity(session, cfg, now) ==
    now - session.last_activity > cfg.session.ttl_seconds

\* session_manager.py:44: a session is too old
expired(session, cfg, now) == now - session.created_at > cfg.session.ttl_seconds

\* session_manager.py:27-48: the session get_session returns (0 for None) and the
\* _sessions it leaves
get_session(session_id, sm, cfg, now) ==
    IF ~cfg.session.enabled \/ session_id = ""
    THEN [session |-> 0, _sessions |-> sm._sessions]
    ELSE IF session_id \in DOMAIN sm._sessions
    THEN IF expired(sm.objects[sm._sessions[session_id]], cfg, now)
         THEN [session |-> 0,
               _sessions |-> [k \in DOMAIN sm._sessions \ {session_id} |-> sm._sessions[k]]]
         ELSE [session |-> sm._sessions[session_id], _sessions |-> sm._sessions]
    ELSE [session |-> 0, _sessions |-> sm._sessions]

\* session_manager.py:138-147: the context built from a session's history
history_context(session) ==
    LET history == session.history
        n == Len(history)
    IN  [previous_intents |-> [i \in 1..Min(n, 3) |-> history[n - Min(n, 3) + i].intent],
         last_intent |-> IF n > 0 THEN history[n].intent ELSE None,
         interaction_count |-> n,
         session_context |-> session.context]

\* the merge with the session's values winning
merge_session_wins(session_context, context) ==
    IF DOMAIN context # {} THEN session_context @@ context ELSE session_context

\* app.py:116-120, 230-233: {**session_context, **context}
merge(session_context, context) ==
    IF DOMAIN context # {} THEN context @@ session_context ELSE session_context

\* session_manager.py:113-119: deque(maxlen).append
append(history, entry, maxlen) ==
    LET all == Append(history, entry)
    IN  IF Len(all) > maxlen THEN Tail(all) ELSE all

Idle == [session |-> 0, session_context |-> <<>>, context |-> <<>>, intent |-> None]

\* session_manager.py:19-25, with session.max_history and session.ttl_seconds of
\* config.py:40-44 scaled down
InitSession ==
    /\ config \in [session : [enabled : BOOLEAN, max_history : {2}, ttl_seconds : {2}]]
    /\ semantic_classifier = None
    /\ product_catalog = <<>>
    \* calls counts the requests, to bound them
    /\ session_manager = [_sessions |-> <<>>, objects |-> <<>>, calls |-> 0]
    /\ time = 0
    /\ pc = [t \in Threads |-> "idle"]
    /\ request = [t \in Threads |-> NoRequest]
    /\ result = [t \in Threads |-> Idle]

\* a request thread enters parse_single_text, parse_pre_order or parse_post_delivery
CallParse(t) ==
    /\ pc[t] = "idle"
    /\ session_manager.calls < MaxCalls
    /\ \E op \in {"parse_single_text", "parse_pre_order", "parse_post_delivery"},
          i \in 1..2, session_id \in {"", "s1"} :
          request' = [request EXCEPT ![t] =
                         [op |-> op, text |-> "yes", session_id |-> session_id,
                          context |-> <<<<>>, [order_number |-> "ab123",
                                               last_intent |-> "caller",
                                               conversation_stage |-> "caller"]>>[i]]]
    /\ result' = [result EXCEPT ![t] = Idle]
    /\ pc' = [pc EXCEPT ![t] = "get_context"]
    /\ session_manager' = [session_manager EXCEPT !.calls = @ + 1]
    /\ UNCHANGED <<time, config, semantic_classifier, product_catalog>>

\* app.py:112-115, session_manager.py:131-136: get_context asks for the session
GetContext(t) ==
    /\ pc[t] = "get_context"
    /\ LET got == get_session(request[t].session_id, session_manager, config, time)
       IN  /\ session_manager' = [session_manager EXCEPT !._sessions = got._sessions]
           /\ result' = [result EXCEPT ![t].session = got.session]
    /\ pc' = [pc EXCEPT ![t] = "merge"]
    /\ UNCHANGED <<time, config, semantic_classifier, product_catalog, request>>

\* session_manager.py:138-147, app.py:116-129: the session's history is read, the
\* contexts are merged and handed to classify and extract
Merge(t) ==
    /\ pc[t] = "merge"
    /\ LET context == stage_context(request[t].op, request[t].context)
           session_context ==
               IF result[t].session = 0 THEN <<>>
               ELSE history_context(session_manager.objects[result[t].session])
       IN  \E intent \in ParseIntents :
              result' = [result EXCEPT ![t] =
                            [session |-> 0,
                             session_context |-> session_context,
                             context |-> IF request[t].session_id # ""
                                         THEN merge(session_context, context)
                                         ELSE context,
                             intent |-> intent]]
    /\ pc' = [pc EXCEPT ![t] = "add_to_history"]
    /\ UNCHANGED <<session_manager, time, config, semantic_classifier, product_catalog, request>>

\* app.py:150-151, session_manager.py:107-110, 84-87: without a session id or with
\* sessions disabled the parse function returns; otherwise add_to_history asks for
\* the session
AddToHistory(t) ==
    /\ pc[t] = "add_to_history"
    /\ IF request[t].session_id = "" \/ ~config.session.enabled
       THEN /\ pc' = [pc EXCEPT ![t] = "idle"]
            /\ request' = [request EXCEPT ![t] = NoRequest]
            /\ result' = [result EXCEPT ![t] = Idle]
            /\ UNCHANGED session_manager
       ELSE LET got == get_session(request[t].session_id, session_manager, config, time)
            IN  /\ session_manager' = [session_manager EXCEPT !._sessions = got._sessions]
                /\ result' = [result EXCEPT ![t].session = got.session]
                /\ pc' = [pc EXCEPT ![t] = "get_or_create"]
                /\ UNCHANGED request
    /\ UNCHANGED <<time, config, semantic_classifier, product_catalog>>

\* session_manager.py:88-93, 63-72: no session was found and one is created and
\* stored, or the one found is touched
GetOrCreate(t) ==
    /\ pc[t] = "get_or_create"
    /\ IF result[t].session = 0
       THEN LET session == [session_id |-> request[t].session_id, created_at |-> time,
                            last_activity |-> time, history |-> <<>>, context |-> <<>>]
                at == Len(session_manager.objects) + 1
            IN  /\ session_manager' =
                      [session_manager EXCEPT
                          !.objects = Append(@, session),
                          !._sessions = (request[t].session_id :> at) @@ @]
                /\ result' = [result EXCEPT ![t].session = at]
       ELSE /\ session_manager' =
                  [session_manager EXCEPT !.objects[result[t].session].last_activity = time]
            /\ UNCHANGED result
    /\ pc' = [pc EXCEPT ![t] = "append"]
    /\ UNCHANGED <<time, config, semantic_classifier, product_catalog, request>>

\* session_manager.py:111-119: the entry is appended to the session the thread
\* holds, and the parse function returns
AppendEntry(t) ==
    /\ pc[t] = "append"
    /\ session_manager' =
          [session_manager EXCEPT
              !.objects[result[t].session] =
                  [@ EXCEPT !.history = append(@, [intent |-> result[t].intent,
                                                   text |-> request[t].text],
                                               config.session.max_history),
                            !.last_activity = time]]
    /\ pc' = [pc EXCEPT ![t] = "idle"]
    /\ request' = [request EXCEPT ![t] = NoRequest]
    /\ result' = [result EXCEPT ![t] = Idle]
    /\ UNCHANGED <<time, config, semantic_classifier, product_catalog>>

\* session_manager.py:149-164
cleanup_expired ==
    /\ config.session.enabled
    /\ \E sid \in DOMAIN session_manager._sessions :
          expired(session_manager.objects[session_manager._sessions[sid]], config, time)
    /\ session_manager' =
          [session_manager EXCEPT
              !._sessions =
                  [k \in {sid \in DOMAIN @ :
                             ~expired(session_manager.objects[@[sid]], config, time)} |-> @[k]]]
    /\ UNCHANGED <<time, config, semantic_classifier, product_catalog, pc, request, result>>

\* time passes
Tick ==
    /\ time < MaxTime
    /\ time' = time + 1
    /\ UNCHANGED <<session_manager, config, semantic_classifier, product_catalog, pc,
                   request, result>>

NextSession ==
    \/ \E t \in Threads :
          \/ CallParse(t)
          \/ GetContext(t)
          \/ Merge(t)
          \/ AddToHistory(t)
          \/ GetOrCreate(t)
          \/ AppendEntry(t)
    \/ cleanup_expired
    \/ Tick

SpecSession == InitSession /\ [][NextSession]_vars

(***************************************************************************)
(* Properties of the parse functions and the session manager.             *)
(***************************************************************************)
\* thread t has merged the contexts of a request with a session id and a context
Merged(t) ==
    /\ pc[t] = "add_to_history"
    /\ request[t].session_id # ""
    /\ DOMAIN request[t].context # {}

StageParsers == {"parse_pre_order", "parse_post_delivery"}

StageOf(op) ==
    IF op = "parse_pre_order" THEN "pre_order_substitution" ELSE "post_delivery_investigation"

SessionKeys == {"previous_intents", "last_intent", "interaction_count", "session_context"}

C20_NoEntryOnOrphanedSession ==
    \A at \in DOMAIN session_manager.objects :
        LET session == session_manager.objects[at]
        IN  (session.history # <<>> /\ ~expired(session, config, time)) =>
                /\ session.session_id \in DOMAIN session_manager._sessions
                /\ session_manager._sessions[session.session_id] = at

(***************************************************************************)
(* The confidence filter of app.py.  The intent confidence and the three   *)
(* floors of config.py:26-30 are in thousandths, entity confidences in     *)
(* millionths as in the extractor.                                         *)
(***************************************************************************)
\* the filter with > for >=: an entity whose confidence equals the floor is dropped
apply_confidence_filters_strict(intent, confidence, entities, cfg) ==
    LET keep(e) == e.confidence > cfg.confidence.min_entity_confidence
    IN  [entities |-> [k \in DOMAIN entities |->
                          IF k \in {"products", "quantities"}
                          THEN SelectSeq(entities[k], keep) ELSE entities[k]],
         uncertain |-> confidence < cfg.confidence.uncertain_threshold,
         confidence_below_threshold |-> confidence < cfg.confidence.min_intent_confidence]

\* app.py:53-90
apply_confidence_filters(intent, confidence, entities, cfg) ==
    LET keep(e) == e.confidence >= cfg.confidence.min_entity_confidence
    IN  [entities |-> [k \in DOMAIN entities |->
                          IF k \in {"products", "quantities"}
                          THEN SelectSeq(entities[k], keep) ELSE entities[k]],
         uncertain |-> confidence < cfg.confidence.uncertain_threshold,
         confidence_below_threshold |-> confidence < cfg.confidence.min_intent_confidence]

\* config.py:26-30, 91-95: the floors, the entity floor at its default or raised
InitFilter ==
    /\ config \in [confidence : [min_intent_confidence : {300},
                                 min_entity_confidence : {400000, 700000},
                                 uncertain_threshold : {600}]]
    /\ semantic_classifier = None
    /\ product_catalog = <<>>
    /\ session_manager = None
    /\ time = 0
    /\ pc = "idle"
    /\ request = NoRequest
    /\ result = NoResult

\* app.py:132, 245: the filter is applied to a classification and the entities
\* extracted, some of them below, at and above the floors
ApplyConfidenceFilters ==
    /\ pc = "idle"
    /\ LET Confidences == {300000, 400000, 700000, 800000}
           Lists == {<<>>} \cup {<<[name |-> "a", confidence |-> c]>> : c \in Confidences}
                    \cup {<<[name |-> "a", confidence |-> c], [name |-> "b", confidence |-> d]>> :
                             c, d \in Confidences}
       IN  \E confidence \in {0, 299, 300, 599, 600, 950},
              products \in Lists, quantities \in Lists,
              reasons \in {<<>>, <<[name |-> "missing", confidence |-> 300000]>>},
              kinds \in 1..2 :
              /\ request' = [op |-> "apply_confidence_filters", intent |-> "report_issue",
                             confidence |-> confidence,
                             entities |->
                                <<[products |-> products, quantities |-> quantities,
                                   reasons |-> reasons,
                                   urgency |-> [level |-> "high", confidence |-> 300000]],
                                  [reasons |-> reasons,
                                   urgency |-> [level |-> "high", confidence |-> 300000]]>>[kinds]]
              /\ (kinds = 2 => products = <<>> /\ quantities = <<>>)
    /\ result' = apply_confidence_filters(request'.intent, request'.confidence,
                                          request'.entities, config)
    /\ pc' = "returned"
    /\ UNCHANGED <<session_manager, time, config, semantic_classifier, product_catalog>>

NextFilter == ApplyConfidenceFilters \/ Done

SpecFilter == InitFilter /\ [][NextFilter]_vars

Filtered == pc = "returned" /\ request.op = "apply_confidence_filters"

\* the entities of list `entities` at or above the floor, in their order
AtOrAbove(entities, floor) ==
    LET F[i \in 0..Len(entities)] ==
            IF i = 0 THEN <<>>
            ELSE IF entities[i].confidence < floor THEN F[i - 1]
            ELSE Append(F[i - 1], entities[i])
    IN  F[Len(entities)]

\* C15: apply_confidence_filters removes exactly the products and quantities whose
\* confidence is below the entity floor (one at the floor is kept), leaves every
\* other kind unchanged, and sets uncertain iff the intent confidence is below 0.6
\* and confidence_below_threshold iff it is below 0.3.
C15_FilterBelowFloor ==
    Filtered =>
        /\ DOMAIN result.entities = DOMAIN request.entities
        /\ \A k \in DOMAIN request.entities :
              result.entities[k] =
                  IF k \in {"products", "quantities"}
                  THEN AtOrAbove(request.entities[k], config.confidence.min_entity_confidence)
                  ELSE request.entities[k]
        /\ result.uncertain <=> request.confidence < 600
        /\ result.confidence_below_threshold <=> request.confidence < 300

\* a product below the floor is removed and one at the floor kept, a reason below
\* the floor stays, and the result is uncertain but not below the threshold
C15_Witness ==
    /\ Filtered
    /\ config.confidence.min_entity_confidence = 400000
    /\ request.entities.products = <<[name |-> "a", confidence |-> 300000],
                                     [name |-> "b", confidence |-> 400000]>>
    /\ result.entities.products = <<[name |-> "b", confidence |-> 400000]>>
    /\ result.entities.reasons = <<[name |-> "missing", confidence |-> 300000]>>
    /\ request.confidence = 300
    /\ result.uncertain
    /\ ~result.confidence_below_threshold

(***************************************************************************)
(* The language detector (language_detector.py).  A text is a sequence of  *)
(* words and, apart from them, blanks or nothing.  The words: "yes" is an  *)
(* English indicator, "kiitos" a Finnish one, "ja" a Swedish one,          *)
(* "problem" an English and a Swedish one, "x" is none; "tAmA" stands for  *)
(* the Finnish indicator of line 21 that holds the characters of           *)
(* FINNISH_CHARS and SWEDISH_CHARS as the source file stores them.         *)
(* Scores are in millionths.                                               *)
(***************************************************************************)
MaxWords == 6

DetectorWords == {"yes", "kiitos", "ja", "problem", "tAmA", "x"}

\* language_detector.py:46-67: the normalized score of each language
language_scores(text) ==
    LET count(S) == Cardinality({i \in 1..Len(text.words) : text.words[i] \in S})
        chars == IF count({"tAmA"}) > 0 THEN 2 * Micro ELSE 0
        text_length == Len(text.words)
        norm(score) == IF text_length > 0 THEN score \div Max(text_length, 1) ELSE score
    IN  [en |-> norm(count({"yes", "problem"}) * (Micro \div 2)),
         fi |-> norm(chars + count({"kiitos", "tAmA"}) * (Micro \div 2)),
         sv |-> norm(chars + count({"ja", "problem"}) * (Micro \div 2))]

\* line 70: max over the dict in its order en, fi, sv
best_language(scores) ==
    IF scores.en >= scores.fi /\ scores.en >= scores.sv THEN "en"
    ELSE IF scores.fi >= scores.sv THEN "fi" ELSE "sv"

\* detect without the default of lines 72-74
detect_without_default(text) ==
    IF text.words = <<>> /\ ~text.blanks THEN "en"
    ELSE best_language(language_scores(text))

\* language_detector.py:33-76
detect(text) ==
    IF text.words = <<>> /\ ~text.blanks THEN "en"
    ELSE LET scores == language_scores(text)
             detected_lang == best_language(scores)
         IN  IF scores[detected_lang] < Micro \div 10 THEN "en" ELSE detected_lang

InitDetect ==
    /\ config = DefaultConfig
    /\ semantic_classifier = None
    /\ product_catalog = <<>>
    /\ session_manager = None
    /\ time = 0
    /\ pc = "idle"
    /\ request = NoRequest
    /\ result = NoResult

\* app.py:109: detect is called on a text and returns a language code
Detect ==
    /\ pc = "idle"
    /\ \E n \in 0..MaxWords : \E words \in [1..n -> DetectorWords], blanks \in BOOLEAN :
          request' = [op |-> "detect", text |-> [words |-> words, blanks |-> blanks]]
    /\ result' = [language |-> detect(request'.text)]
    /\ pc' = "returned"
    /\ UNCHANGED <<session_manager, time, config, semantic_classifier, product_catalog>>

NextDetect == Detect \/ Done

SpecDetect == InitDetect /\ [][NextDetect]_vars

Detected == pc = "returned" /\ request.op = "detect"

ReqLanguageScores == language_scores(request.text)

BestScore == Max(ReqLanguageScores.en, Max(ReqLanguageScores.fi, ReqLanguageScores.sv))

\* C16: detect returns en, fi or sv; en for the empty text and whenever the best
\* normalized score is below 0.1; otherwise a language whose normalized score is
\* the highest.
C16_DetectedLanguage ==
    Detected =>
        /\ result.language \in {"en", "fi", "sv"}
        /\ (request.text.words = <<>> /\ ~request.text.blanks) => result.language = "en"
        /\ BestScore < Micro \div 10 => result.language = "en"
        /\ BestScore >= Micro \div 10 => ReqLanguageScores[result.language] = BestScore

\* one Swedish indicator in five words is just enough, and Swedish is returned
C16_Witness ==
    /\ Detected
    /\ Len(request.text.words) = 5
    /\ ReqLanguageScores.sv = Micro \div 10
    /\ ReqLanguageScores.en = 0
    /\ result.language = "sv"

\* one Finnish indicator in six words is not enough, and English is returned
C16_WitnessDefault ==
    /\ Detected
    /\ Len(request.text.words) = 6
    /\ ReqLanguageScores.fi > 0
    /\ ReqLanguageScores.fi < Micro \div 10
    /\ ReqLanguageScores.en = 0
    /\ result.language = "en"

(***************************************************************************)
(* Properties of the priority boost of the entity extractor.              *)
(***************************************************************************)
ReqEntityWords == Words(request.text.tokens)

\* entity `after` is entity `before` with its confidence times 1.2, capped at 1.0
BoostedOnce(before, after) ==
    /\ DOMAIN after = DOMAIN before
    /\ \A k \in DOMAIN before \ {"confidence"} : after[k] = before[k]
    /\ after.confidence = Min(Micro, (before.confidence * 12) \div 10)

\* `after` is what the statement makes of the sub-extractor's output `before`
Framed(entity_type, before, after) ==
    IF ~Contains(request.priority_entities, <<entity_type>>) THEN after = before
    ELSE IF entity_type \in {"sentiment", "urgency"} THEN BoostedOnce(before, after)
    ELSE /\ Len(after) = Len(before)
         /\ \A i \in 1..Len(before) : BoostedOnce(before[i], after[i])

MaxChars == 4

MaxBatch == 3

Str(chars) == [kind |-> "str", value |-> chars]

NoValue == [kind |-> None, value |-> <<>>]

Strings(alphabet, n) == UNION {[1..k -> alphabet] : k \in 0..n}

\* str.strip(): white space is removed at both ends
strip_text(chs) ==
    LET White == {" ", "LF", "US"}
        Dark == {i \in 1..Len(chs) : chs[i] \notin White}
        lo == CHOOSE i \in Dark : \A j \in Dark : i <= j
        hi == CHOOSE i \in Dark : \A j \in Dark : i >= j
    IN  IF Dark = {} THEN <<>> ELSE SubSeq(chs, lo, hi)

\* validators.py:12-53
validate_text(text, cfg) ==
    IF text.kind = None \/ (text.kind = "str" /\ text.value = <<>>)
    THEN [value |-> <<>>, error |-> "MISSING_TEXT"]
    ELSE IF text.kind # "str" THEN [value |-> <<>>, error |-> "INVALID_TYPE"]
    ELSE LET stripped == strip_text(text.value)
             \* line 48: control characters are removed
             Kept == {i \in 1..Len(stripped) : stripped[i] \notin {"NUL", "US"}}
             clean[i \in 0..Len(stripped)] ==
                 IF i = 0 THEN <<>>
                 ELSE IF i \notin Kept THEN clean[i - 1]
                 \* line 51: a run of blanks becomes one blank
                 ELSE IF stripped[i] = " " /\ clean[i - 1] # <<>>
                         /\ clean[i - 1][Len(clean[i - 1])] = " " THEN clean[i - 1]
                 ELSE Append(clean[i - 1], stripped[i])
         IN  IF Len(stripped) < cfg.validation.min_text_length
             THEN [value |-> <<>>, error |-> "TEXT_TOO_SHORT"]
             ELSE IF Len(stripped) > cfg.validation.max_text_length
             THEN [value |-> <<>>, error |-> "TEXT_TOO_LONG"]
             ELSE [value |-> clean[Len(stripped)], error |-> None]

\* validators.py:56-87; the keys of a JSON object are strings
validate_context(context) ==
    IF context.kind = None THEN [value |-> <<>>, error |-> None]
    ELSE IF context.kind # "dict" THEN [value |-> <<>>, error |-> "INVALID_CONTEXT"]
    ELSE IF \E i \in 1..Len(context.value) : context.value[i] = "null"
    THEN [value |-> <<>>, error |-> "INVALID_CONTEXT_VALUE"]
    ELSE [value |-> context.value, error |-> None]

\* validators.py:90-119; re.match with $ also matches before a final newline, and
\* the ids of the model are shorter than 100 characters
validate_session_id(session_id) ==
    IF session_id.kind = None THEN [value |-> <<>>, error |-> None]
    ELSE IF session_id.kind # "str" THEN [value |-> <<>>, error |-> "INVALID_SESSION_ID"]
    ELSE LET chs == session_id.value
             n == Len(chs)
             body == IF n > 0 /\ chs[n] = "LF" THEN SubSeq(chs, 1, n - 1) ELSE chs
         IN  IF body = <<>> \/ \E i \in 1..Len(body) : body[i] \notin {"a", "-"}
             THEN [value |-> <<>>, error |-> "INVALID_SESSION_ID_FORMAT"]
             ELSE [value |-> chs, error |-> None]

\* validators.py:122-160
validate_batch_request(texts, cfg) ==
    IF texts.kind # "list" THEN [value |-> <<>>, error |-> "INVALID_BATCH_FORMAT"]
    ELSE IF Len(texts.value) > cfg.validation.max_batch_size
    THEN [value |-> <<>>, error |-> "BATCH_TOO_LARGE"]
    ELSE IF Len(texts.value) = 0 THEN [value |-> <<>>, error |-> "EMPTY_BATCH"]
    ELSE LET item(i) == IF texts.value[i].kind # "str"
                        THEN [value |-> <<>>, error |-> "INVALID_BATCH_ITEM"]
                        ELSE validate_text(texts.value[i], cfg)
             Bad == {i \in 1..Len(texts.value) : item(i).error # None}
         IN  IF Bad # {}
             THEN [value |-> <<>>,
                   error |-> item(CHOOSE i \in Bad : \A j \in Bad : i <= j).error]
             ELSE [value |-> [i \in 1..Len(texts.value) |-> item(i).value], error |-> None]

\* config.py:21-25
InitValidate ==
    /\ config = [validation |-> [min_text_length |-> 1, max_text_length |-> 3,
                                 max_batch_size |-> 2]]
    /\ semantic_classifier = None
    /\ product_catalog = <<>>
    /\ session_manager = None
    /\ time = 0
    /\ pc = "idle"
    /\ request = NoRequest
    /\ result = NoResult

\* app.py:394
ValidateText ==
    /\ pc = "idle"
    /\ \E text \in {Str(chs) : chs \in Strings({"a", " ", "LF", "NUL", "US"}, MaxChars)}
                   \cup {NoValue, [kind |-> "int", value |-> <<>>]} :
          /\ request' = [op |-> "validate_text", arg |-> text]
          /\ result' = validate_text(text, config)
    /\ pc' = "returned"
    /\ UNCHANGED <<session_manager, time, config, semantic_classifier, product_catalog>>

\* app.py:399
ValidateContext ==
    /\ pc = "idle"
    /\ \E context \in {[kind |-> "dict", value |-> v] : v \in Strings({"str", "int", "null"}, 2)}
                      \cup {NoValue, [kind |-> "list", value |-> <<>>],
                            [kind |-> "str", value |-> <<>>]} :
          /\ request' = [op |-> "validate_context", arg |-> context]
          /\ result' = validate_context(context)
    /\ pc' = "returned"
    /\ UNCHANGED <<session_manager, time, config, semantic_classifier, product_catalog>>

\* app.py:404
ValidateSessionId ==
    /\ pc = "idle"
    /\ \E session_id \in {Str(chs) : chs \in Strings({"a", "-", "@", "LF"}, MaxChars)}
                         \cup {NoValue, [kind |-> "int", value |-> <<>>]} :
          /\ request' = [op |-> "validate_session_id", arg |-> session_id]
          /\ result' = validate_session_id(session_id)
    /\ pc' = "returned"
    /\ UNCHANGED <<session_manager, time, config, semantic_classifier, product_catalog>>

\* app.py:571
ValidateBatchRequest ==
    /\ pc = "idle"
    /\ \E texts \in {[kind |-> "list", value |-> v] :
                       v \in Strings({Str(<<"a">>), Str(<<" ", "a">>), Str(<<>>),
                                      Str(<<"a", "a", "a", "a">>),
                                      [kind |-> "int", value |-> <<>>]}, MaxBatch)}
                    \cup {NoValue, [kind |-> "str", value |-> <<>>]} :
          /\ request' = [op |-> "validate_batch_request", arg |-> texts]
          /\ result' = validate_batch_request(texts, config)
    /\ pc' = "returned"
    /\ UNCHANGED <<session_manager, time, config, semantic_classifier, product_catalog>>

NextValidate ==
    ValidateText \/ ValidateContext \/ ValidateSessionId \/ ValidateBatchRequest \/ Done

SpecValidate == InitValidate /\ [][NextValidate]_vars

Validated(op) == pc = "returned" /\ request.op = op

\* an error comes with the empty value
C18_ErrorOrValue ==
    (pc = "returned" /\ request.op \in {"validate_text", "validate_context",
                                        "validate_session_id", "validate_batch_request"}) =>
        (result.error # None => result.value = <<>>)

C18_Text ==
    Validated("validate_text") =>
        /\ (request.arg.kind = None \/ request.arg = Str(<<>>)) => result.error = "MISSING_TEXT"
        /\ (request.arg.kind = "str"
            /\ Len(strip_text(request.arg.value)) > config.validation.max_text_length) =>
               result.error = "TEXT_TOO_LONG"

C18_Context ==
    Validated("validate_context") =>
        (request.arg.kind \notin {None, "dict"} => result.error = "INVALID_CONTEXT")

C18_SessionId ==
    Validated("validate_session_id") =>
        ((request.arg.kind = "str"
          /\ \E i \in 1..Len(request.arg.value) : request.arg.value[i] \notin {"a", "-"}) =>
             result.error = "INVALID_SESSION_ID_FORMAT")

C18_Batch ==
    Validated("validate_batch_request") =>
        LET texts == request.arg.value
            Bad == {i \in 1..Len(texts) :
                      texts[i].kind # "str" \/ validate_text(texts[i], config).error # None}
        IN  /\ (request.arg.kind = "list" /\ Len(texts) > config.validation.max_batch_size) =>
                   result.error = "BATCH_TOO_LARGE"
            /\ (request.arg.kind = "list" /\ Bad # {}) => result.error # None

\* C18: a validator returns a value without an error or the empty value with an
\* error; validate_text gives MISSING_TEXT for an empty text and TEXT_TOO_LONG
\* above the maximum length, validate_context INVALID_CONTEXT for a value that is
\* no mapping, validate_session_id INVALID_SESSION_ID_FORMAT for an id with a
\* character that is no letter, digit, dash or underscore, validate_batch_request
\* BATCH_TOO_LARGE above the maximum size whatever the items are, and an error
\* when an item is invalid.
C18_ValidatorsRejectBadInput ==
    /\ C18_ErrorOrValue
    /\ C18_Text
    /\ C18_Context
    /\ C18_SessionId
    /\ C18_Batch

\* C30: whenever validate_text returns no error, the returned text is not empty
\* (it has at least validation.min_text_length = 1 characters), has no white
\* space at either end and holds no control character besides newline, carriage
\* return and tab.
C30_ValidTextIsCleanAndNotEmpty ==
    (Validated("validate_text") /\ result.error = None) =>
        LET text == result.value
        IN  /\ Len(text) >= config.validation.min_text_length
            /\ text # <<>>
            /\ text = strip_text(text)
            /\ \A i \in 1..Len(text) : text[i] \notin {"NUL", "US"}

(***************************************************************************)
(* The order matcher of the voice matching service                         *)
(* (services/voice_matching_service/main.py).  Product codes and names     *)
(* are taken from a few strings; "" stands for None.  Scores are in        *)
(* ten-thousandths.  A matched item keeps, besides the fields of           *)
(* MatchedItem that depend on the match, the positions of its entity and   *)
(* of its line.                                                            *)
(***************************************************************************)
MaxLines == 3

MaxEntities == 2

NAME_MATCH_THRESHOLD == 5500

\* main.py:38-46
_normalize_code(raw) ==
    CASE raw = "6410.0" -> "6410"
      [] raw = " 6410 " -> "6410"
      [] OTHER -> raw

\* main.py:49-58: SequenceMatcher(None, na, nb).ratio() of the normalized names
_name_similarity(a, b) ==
    CASE a = "" \/ b = "" -> 0
      [] a = "milk" ->
            (CASE b = "Milk" -> 10000 [] b = "Oat Milk 1L" -> 5333 [] b = "Bread" -> 0
               [] b = "Oat Milk 1L xxxxxxxxxxxxxxxxx" -> 2424)
      [] a = "Oat Milk 1L" ->
            (CASE b = "Milk" -> 5333 [] b = "Oat Milk 1L" -> 10000 [] b = "Bread" -> 1250
               [] b = "Oat Milk 1L xxxxxxxxxxxxxxxxx" -> 5500)

NoMatch == [index |-> 0, source |-> None, score |-> 0]

\* _match_single_entity without the threshold of line 293
_match_single_entity_without_threshold(entity, used_indices, prepared) ==
    LET gtin == _normalize_code(entity.gtin)
        Free == {i \in 1..Len(prepared) : i \notin used_indices}
        ByCode == {i \in Free : prepared[i].product_code # "" /\ prepared[i].product_code = gtin}
        score(i) == _name_similarity(entity.name, prepared[i].name)
        Best == {i \in Free : score(i) > 0 /\ \A j \in Free : score(j) <= score(i)}
        first(S) == CHOOSE i \in S : \A j \in S : i <= j
    IN  IF gtin # "" /\ ByCode # {}
        THEN [index |-> first(ByCode), source |-> "gtin", score |-> 10000]
        ELSE IF entity.name = "" \/ Best = {} THEN NoMatch
        ELSE [index |-> first(Best), source |-> "name", score |-> score(first(Best))]

\* main.py:263-298
_match_single_entity(entity, used_indices, prepared) ==
    LET gtin == _normalize_code(entity.gtin)
        Free == {i \in 1..Len(prepared) : i \notin used_indices}
        ByCode == {i \in Free : prepared[i].product_code # "" /\ prepared[i].product_code = gtin}
        score(i) == _name_similarity(entity.name, prepared[i].name)
        \* lines 283-291: the first line with the highest score above 0
        Best == {i \in Free : score(i) > 0 /\ \A j \in Free : score(j) <= score(i)}
        first(S) == CHOOSE i \in S : \A j \in S : i <= j
    IN  IF gtin # "" /\ ByCode # {}
        THEN [index |-> first(ByCode), source |-> "gtin", score |-> 10000]
        ELSE IF entity.name = "" \/ Best = {} THEN NoMatch
        ELSE IF score(first(Best)) >= NAME_MATCH_THRESHOLD
        THEN [index |-> first(Best), source |-> "name", score |-> score(first(Best))]
        ELSE NoMatch

\* main.py:300-308
_select_quantity(idx, quantities) ==
    IF quantities = <<>> THEN <<>>
    ELSE IF idx <= Len(quantities) THEN <<quantities[idx]>>
    ELSE <<quantities[Len(quantities)]>>

\* main.py:240-261
match(products, quantities, prepared) ==
    LET step[k \in 0..Len(products)] ==
            IF k = 0 THEN [matched_items |-> <<>>, matched_line_ids |-> <<>>, used_indices |-> {}]
            ELSE LET before == step[k - 1]
                     found == _match_single_entity(products[k], before.used_indices, prepared)
                 IN  IF found.index = 0 THEN before
                     ELSE [matched_items |->
                               Append(before.matched_items,
                                      [entity |-> k, index |-> found.index,
                                       lineId |-> prepared[found.index].line_id,
                                       detectedName |-> products[k].name,
                                       detectedQuantity |-> _select_quantity(k, quantities),
                                       matchScore |-> found.score,
                                       matchSource |-> found.source]),
                           matched_line_ids |->
                               before.matched_line_ids \o prepared[found.index].line_id,
                           used_indices |-> before.used_indices \cup {found.index}]
    IN  [matched_items |-> step[Len(products)].matched_items,
         matched_line_ids |-> step[Len(products)].matched_line_ids]

InitMatch ==
    /\ config = [NAME_MATCH_THRESHOLD |-> NAME_MATCH_THRESHOLD]
    /\ semantic_classifier = None
    /\ product_catalog = <<>>
    /\ session_manager = None
    /\ time = 0
    /\ pc = "idle"
    /\ request = NoRequest
    /\ result = NoResult

\* main.py:197-238, 240-261: an OrderMatcher is made for the lines of an order, each
\* with or without a line id once _prepare_items has run, and match is called on
\* the products and quantities of the NLU response
Match ==
    /\ pc = "idle"
    /\ \E n \in 1..MaxLines, m \in 0..MaxEntities :
       \E names \in [1..n -> {"Milk", "Oat Milk 1L", "Bread", "Oat Milk 1L xxxxxxxxxxxxxxxxx"}],
          codes \in [1..n -> {"", "6410", "6410.0"}],
          ids \in [1..n -> BOOLEAN],
          entity_names \in [1..m -> {"", "milk", "Oat Milk 1L"}],
          gtins \in [1..m -> {"", " 6410 "}],
          quantities \in {<<>>, <<[value |-> 5]>>} :
          \* the third line has a name and a line id only
          /\ n = 3 => codes[3] = "" /\ ids[3]
          /\ request' =
                [op |-> "match",
                 prepared |-> [i \in 1..n |->
                                  [index |-> i,
                                   line_id |-> IF ids[i] THEN <<10 + i>> ELSE <<>>,
                                   product_code |-> _normalize_code(codes[i]),
                                   name |-> names[i]]],
                 products |-> [k \in 1..m |-> [name |-> entity_names[k], gtin |-> gtins[k]]],
                 quantities |-> quantities]
    /\ result' = match(request'.products, request'.quantities, request'.prepared)
    /\ pc' = "returned"
    /\ UNCHANGED <<session_manager, time, config, semantic_classifier, product_catalog>>

NextMatch == Match \/ Done

SpecMatch == InitMatch /\ [][NextMatch]_vars

Matched == pc = "returned" /\ request.op = "match"

\* the lines used by the matched items before position k of matched_items
UsedBefore(k) == {result.matched_items[j].index : j \in 1..(k - 1)}

\* the lines used when entity e has its turn
UsedAt(e) ==
    {result.matched_items[j].index :
        j \in {j \in 1..Len(result.matched_items) : result.matched_items[j].entity < e}}

\* line i is the choice the statement describes for entity e, the lines of `used` taken
Chosen(e, i, used) ==
    LET entity == request.products[e]
        gtin == _normalize_code(entity.gtin)
        Free == {j \in 1..Len(request.prepared) : j \notin used}
        ByCode == {j \in Free : gtin # "" /\ request.prepared[j].product_code = gtin}
        sim(j) == _name_similarity(entity.name, request.prepared[j].name)
    IN  /\ i \in Free
        /\ IF ByCode # {} THEN i \in ByCode
           ELSE /\ sim(i) >= NAME_MATCH_THRESHOLD
                /\ \A j \in Free : sim(j) <= sim(i)

RECURSIVE LineIds(_)
LineIds(items) ==
    IF items = <<>> THEN <<>> ELSE items[1].lineId \o LineIds(Tail(items))

\* C19: match links each entity to at most one line and each line to at most one
\* entity; an unused line whose normalized product code is the entity's GTIN is
\* chosen before any name comparison, otherwise the unused line with the highest
\* name similarity if that is at least 0.55; an entity is left out only when there
\* is no such line; matchedLineIds are the line ids of the matched lines that have
\* one, in entity order.
C19_OneLinePerEntity ==
    Matched =>
        LET items == result.matched_items
        IN  /\ \A j, k \in 1..Len(items) :
                  j < k => items[j].entity < items[k].entity /\ items[j].index # items[k].index
            /\ \A k \in 1..Len(items) : Chosen(items[k].entity, items[k].index, UsedBefore(k))
            /\ \A e \in 1..Len(request.products) :
                  (\A k \in 1..Len(items) : items[k].entity # e) =>
                      ~\E i \in 1..Len(request.prepared) : Chosen(e, i, UsedAt(e))
            /\ result.matched_line_ids = LineIds(items)

\* two entities with the same GTIN: the first takes the line with that code, which
\* has no line id, the second the line with the similarity of exactly 0.55
C19_Witness ==
    /\ Matched
    /\ Len(result.matched_items) = 2
    /\ result.matched_items[1].matchSource = "gtin"
    /\ result.matched_items[1].lineId = <<>>
    /\ request.products[2].gtin # ""
    /\ result.matched_items[2].matchSource = "name"
    /\ result.matched_items[2].matchScore = NAME_MATCH_THRESHOLD
    /\ result.matched_items[2].index = 3
    /\ result.matched_line_ids = <<13>>

(***************************************************************************)
(* Further properties of the classifier.                                   *)
(***************************************************************************)
\* the match counts, pattern by pattern, of the list used for `intent`
ReqHits(intent) == compiled_patterns(intent, request.language, ReqWords)

HitAt(counts, k) == IF k \in DOMAIN counts THEN counts[k] ELSE 0

\* the match occurrences over all patterns of a list (a list of the model has
\* at most four patterns that can match)
Occurrences(counts) ==
    HitAt(counts, 1) + HitAt(counts, 2) + HitAt(counts, 3) + HitAt(counts, 4)

MatchedPatterns(counts) == Cardinality({k \in DOMAIN counts : counts[k] > 0})

\* the parts of C21 about the list and about candidates: the list is the one of
\* the language, the English one for a language without a list; an intent
\* without a match scores 0 and is not in intent_scores when the loop ends, so
\* that without a conversation stage the rule-based intent is a matched one
C21_ListAndCandidates ==
    LET loop == LoopScores(request.language, ReqWords)
        rule == ReqRule
    IN  /\ \A intent \in Intents :
              /\ Len(ReqHits(intent)) <= 4
              /\ request.language \notin {"en", "fi", "sv"} =>
                    ReqHits(intent) = compiled_patterns(intent, "en", ReqWords)
              /\ Occurrences(ReqHits(intent)) = 0 => ReqRaw(intent) = 0
        /\ \A i \in 1..Len(loop) : Occurrences(ReqHits(loop[i].intent)) > 0
        /\ (request.context.conversation_stage = None /\ rule.intent # "unknown") =>
              Occurrences(ReqHits(rule.intent)) > 0

\* C21 as stated: the raw score of an intent is 0.3 times the match occurrences
\* over all patterns of the list selected for the language, plus a single 0.5 if
\* at least one pattern matched; an intent without a match has score 0 and is
\* not a candidate.
C21_RawScoreSingleBonus ==
    Returned =>
        /\ C21_ListAndCandidates
        /\ \A intent \in Intents :
              ReqRaw(intent) = Occurrences(ReqHits(intent)) * 300000
                               + (IF MatchedPatterns(ReqHits(intent)) > 0 THEN 500000 ELSE 0)

\* C21, amended: the raw score of an intent is 0.3 times the match occurrences
\* over all patterns of the list selected for the language (the English list
\* when the language has none), plus 0.5 for every pattern of the list that
\* matched; an intent without a match has score 0 and is not a candidate.
C21_RawScoreBonusPerPattern ==
    Returned =>
        /\ C21_ListAndCandidates
        /\ \A intent \in Intents :
              ReqRaw(intent) = Occurrences(ReqHits(intent)) * 300000
                               + MatchedPatterns(ReqHits(intent)) * 500000

\* a text in a language without a list that matches two English patterns of
\* report_issue once each: 2 * 0.3 + 2 * 0.5
C21_Witness ==
    /\ Returned
    /\ request.language = "de"
    /\ MatchedPatterns(ReqHits("report_issue")) = 2
    /\ Occurrences(ReqHits("report_issue")) = 2
    /\ ReqRaw("report_issue") = 1600000
    /\ result.intent = "report_issue"

\* the parts of C22 about the confidence: min(base * dominance_ratio *
\* vague_penalty, 0.95), floored at 0.5, which classify returns as it is when
\* the semantic classifier does not take part
C22_ConfidenceClamped ==
    LET rule == ReqRule
        raw  == raw_confidence(ReqWords, ReqScores)
    IN  /\ rule.intent # "unknown"
        /\ rule.confidence = (IF raw > 950 THEN 950 ELSE IF raw < 500 THEN 500 ELSE raw)
        /\ rule.confidence >= 500
        /\ rule.confidence <= 950
        /\ result.path = "rule" => result.confidence = rule.confidence

TableIndex(intent) == CHOOSE k \in 1..Len(IntentOrder) : IntentOrder[k] = intent

\* when an intent was encountered: at its place in the table if a pattern gave
\* it a score, after the whole table if only a stage seed did
Encountered(intent) ==
    IF ReqLoop(intent) > 0 THEN TableIndex(intent) ELSE Len(IntentOrder) + 1

\* the intents that share the maximum adjusted score
TopIntents ==
    LET d == ReqScores
        m == MaxScore(d)
    IN  {d[i].intent : i \in {j \in 1..Len(d) : d[j].score = m}}

\* C23: exactly one intent is selected; among the intents that share the maximum
\* adjusted score the winner is the one encountered first, in the order of the
\* intent table, an intent that only a stage seed added coming after the
\* pattern-matched ones; the winner is a function of the input.
C23_FirstEncounteredWins ==
    (Returned /\ ReqScores # <<>>) =>
        LET d    == ReqScores
            top  == TopIntents
            rule == ReqRule
        IN  /\ rule.intent \in top
            /\ \A k \in top \ {rule.intent} : Encountered(rule.intent) < Encountered(k)
            /\ \A i \in 1..(Len(d) - 1) :
                  Encountered(d[i].intent) < Encountered(d[i + 1].intent)
            /\ result.path \in {"rule", "rule_kept"} => result.intent = rule.intent

\* 'yes missing': confirm_substitution and report_issue both score 0.8, and the
\* earlier of the table is returned
C23_Witness ==
    /\ Returned
    /\ TopIntents = {"confirm_substitution", "report_issue"}
    /\ result.path = "rule"
    /\ result.intent = "confirm_substitution"

\* C24: with the default semantic threshold 0.5 the semantic classifier is
\* consulted only when no intent obtained a rule score; whenever a pattern or a
\* stage seed produced a score, classify returns the rule-based intent and
\* confidence unchanged.
C24_DefaultThresholdKeepsRuleResult ==
    (Returned /\ config.semantic_threshold = 500) =>
        /\ result.semantic_results # NotAsked =>
              /\ request.text # <<>>
              /\ ReqScores = <<>>
              /\ ReqRule.intent = "unknown"
        /\ ReqScores # <<>> =>
              /\ result.semantic_results = NotAsked
              /\ result.path = "rule"
              /\ result.intent = ReqRule.intent
              /\ result.confidence = ReqRule.confidence

\* the weakest rule result there is, confidence 0.5 from a score below 1, with
\* the semantic classifier enabled and available: it is not asked
C24_Witness ==
    /\ Returned
    /\ config.use_semantic_fallback
    /\ semantic_classifier # None
    /\ config.semantic_threshold = 500
    /\ ReqScores # <<>>
    /\ ReqRule.score < Micro
    /\ ReqRule.confidence = 500
    /\ result.semantic_results = NotAsked
    /\ result.confidence = 500

\* C25: whenever classify returns an intent other than unknown its confidence is
\* above 0; a text that matches no pattern and has similarity 0 to every example
\* sentence is classified unknown.
C25_NamedIntentHasPositiveConfidence ==
    Returned =>
        /\ result.intent # "unknown" => result.confidence > 0
        /\ (/\ request.text # <<>>
            /\ ReqScores = <<>>
            /\ result.semantic_results # NotAsked
            /\ result.semantic_results.score = 0) => result.intent = "unknown"

(***************************************************************************)
(* Further properties of the extractor.                                    *)
(***************************************************************************)
\* the text of the request holds a positive word of the lexicon
ReqPositiveWord ==
    \E p \in {<<"thanks">>, <<"thank", "you">>} :
        Contains(text_lower(Words(request.text.tokens)), p)

\* C27: when the extractor detects negation in the text, or the text holds a
\* cancellation-action word, the sentiment polarity returned is never positive,
\* whether it is the lexicon's alone or the blend with the statistical polarity.
C27_NegationOrCancelNeverPositive ==
    (/\ Extracted
     /\ \/ has_negation(text_lower(Words(request.text.tokens)), request.language)
        \/ has_cancel(text_lower(Words(request.text.tokens)))) =>
        /\ result.sentiment.polarity \in {"negative", "neutral"}
        /\ result.sentiment.method \in {"pattern", "pattern+context", "textblob+pattern"}

\* a text with a positive word and a cancel word, no negation, for which the
\* statistical polarity was positive: both sides turn negative and agree,
\* (0.3 * 0.6 + 0.55 * 0.4) * 1.2
C27_Witness ==
    /\ Extracted
    /\ request.language = "en"
    /\ request.detected_intent = None
    /\ request.priority_entities = <<>>
    /\ ~is_question(request.text)
    /\ ReqPositiveWord
    /\ has_cancel(text_lower(Words(request.text.tokens)))
    /\ ~has_negation(text_lower(Words(request.text.tokens)), request.language)
    /\ ReqCounts.negative = 1
    /\ result.sentiment = Sentiment("negative", 480000, "textblob+pattern")

(***************************************************************************)
(* Further properties of the session manager.                              *)
(***************************************************************************)
\* thread t takes the step in which get_context or add_to_history asks
\* get_session for the session of its request
AsksGetSession(t) ==
    /\ pc[t] \in {"get_context", "add_to_history"}
    /\ pc'[t] # pc[t]
    /\ config.session.enabled
    /\ request[t].session_id # ""

\* what get_session does when asked: a session is returned only if it is the
\* stored one and at most ttl_seconds have passed since its creation; a stored
\* session older than that is not returned and is deleted
GetSessionHonoursTTL(t) ==
    LET sid == request[t].session_id
        objects == session_manager.objects
        stored == session_manager._sessions
        ttl == config.session.ttl_seconds
    IN  /\ result'[t].session # 0 =>
              /\ sid \in DOMAIN stored
              /\ result'[t].session = stored[sid]
              /\ time - objects[stored[sid]].created_at <= ttl
        /\ (sid \in DOMAIN stored /\ time - objects[stored[sid]].created_at > ttl) =>
              /\ result'[t].session = 0
              /\ sid \notin DOMAIN session_manager'._sessions
        /\ (sid \in DOMAIN stored /\ time - objects[stored[sid]].created_at <= ttl) =>
              /\ result'[t].session = stored[sid]
              /\ session_manager'._sessions = stored

\* no step changes when a session was created, whatever it does to last_activity
\* and to the history
CreationTimeKept ==
    \A i \in DOMAIN session_manager.objects :
        /\ i \in DOMAIN session_manager'.objects
        /\ session_manager'.objects[i].created_at = session_manager.objects[i].created_at

\* add_to_history found no session, the expired one having been deleted: the
\* session it creates is a new one, created now, with nothing in it
StartsFreshSession(t) ==
    (pc[t] = "get_or_create" /\ pc'[t] = "append" /\ result[t].session = 0) =>
        LET s == result'[t].session
        IN  /\ s \notin DOMAIN session_manager.objects
            /\ session_manager'._sessions[request[t].session_id] = s
            /\ session_manager'.objects[s].created_at = time
            /\ session_manager'.objects[s].history = <<>>
            /\ session_manager'.objects[s].context = <<>>

\* the first entry of a session: the history holds that entry only, and the
\* context built from it shows that intent only
FirstEntryAlone(t) ==
    (/\ pc[t] = "append" /\ pc'[t] = "idle"
     /\ session_manager.objects[result[t].session].history = <<>>) =>
        LET session == session_manager'.objects[result[t].session]
        IN  /\ session.history = <<[intent |-> result[t].intent, text |-> request[t].text]>>
            /\ history_context(session).previous_intents = <<result[t].intent>>
            /\ history_context(session).last_intent = result[t].intent
            /\ history_context(session).interaction_count = 1

\* C29: a session's lifetime is measured from its creation: get_session never
\* returns a session older than the TTL and deletes it when asked; last_activity
\* updates and new history entries do not extend the lifetime; the first
\* add_to_history after the expiry starts a fresh session whose history holds
\* that entry only and whose context shows no earlier intent.
C29_LifetimeFromCreation ==
    [][/\ CreationTimeKept
       /\ \A t \in Threads :
             /\ AsksGetSession(t) => GetSessionHonoursTTL(t)
             /\ StartsFreshSession(t)
             /\ FirstEntryAlone(t)]_vars

\* a session that was used after its creation, has expired and is gone, and the
\* fresh session stored in its place with one entry
C29_Witness ==
    \E i, j \in DOMAIN session_manager.objects :
        /\ session_manager.objects[i].history # <<>>
        /\ session_manager.objects[i].last_activity > session_manager.objects[i].created_at
        /\ session_manager.objects[j].created_at - session_manager.objects[i].created_at
              > config.session.ttl_seconds
        /\ "s1" \in DOMAIN session_manager._sessions
        /\ session_manager._sessions["s1"] = j
        /\ Len(session_manager.objects[j].history) = 1

(***************************************************************************)
(* app.py: parse_single_text, parse_pre_order and parse_post_delivery for   *)
(* validated requests that carry no session id; what the parse functions   *)
(* do with a session is the subject of SpecSession.                        *)
(***************************************************************************)
MaxParseTokens == 2

\* the texts validate_text lets through; on every text of this vocabulary
\* detect returns en and normalize returns the text as it is (app.py:109-110)
ParseTexts ==
    {text \in EntityTexts :
        Len(text.tokens) <= MaxParseTokens /\ (text.tokens # <<>> \/ text.question)}

\* entity_extractor.py:139-151, 197-199: with a catalog the extractor reaches
\* `if proposed_substitute: proposed_lower = proposed_substitute.lower()`, and
\* of the values validate_context accepts only a str has lower()
extract_raises(context, catalog) ==
    /\ catalog # <<>>
    /\ context.proposed_substitute.truthy
    /\ context.proposed_substitute.kind # "str"

\* app.py:241: the priority_entities the parse function hands to extract;
\* parse_single_text (line 129), which parse_pre_order calls, hands none
extract_priority_entities(op) ==
    IF op = "parse_post_delivery"
    THEN <<"order_numbers", "dates", "reasons", "products">> ELSE <<>>

\* app.py:183-187, 264-269: metadata.priority_entities of the response
metadata_priority_entities(op) ==
    CASE op = "parse_pre_order" -> <<"products", "quantities">>
      [] op = "parse_post_delivery" -> <<"order_numbers", "dates", "reasons", "products">>
      [] OTHER -> <<>>

\* app.py:189-196, 247-253: the order number of the context stands in when none
\* was extracted
context_order_number(op, context, entities) ==
    IF /\ op \in {"parse_pre_order", "parse_post_delivery"}
       /\ context.order_number # <<>>
       /\ entities.order_numbers = <<>>
    THEN [entities EXCEPT !.order_numbers =
             <<[value |-> context.order_number,
                confidence |-> IF op = "parse_pre_order" THEN 900000 ELSE 950000,
                source |-> "context"]>>]
    ELSE entities

\* app.py:93-158, 161-198, 201-290: the response of a parse function, or the
\* exception that leaves it, for the answers of the classifier, of TextBlob and
\* of rapidfuzz
parse(r, catalog, cfg, classified, polarity, fuzzy_products) ==
    LET context  == stage_context(r.op, r.context)
        call     == [text |-> r.text, language |-> "en",
                     context |-> [proposed_substitute |-> context.proposed_substitute.str],
                     priority_entities |-> extract_priority_entities(r.op),
                     detected_intent |-> classified.intent]
        entities == extract(call, catalog, cfg.max_fuzzy_results, polarity, fuzzy_products)
        filtered == apply_confidence_filters(classified.intent, classified.confidence,
                                             entities, cfg)
    IN  IF extract_raises(context, catalog)
        THEN [error |-> "AttributeError"]
        ELSE [error |-> None,
              intent |-> classified.intent,
              confidence |-> classified.confidence,
              entities |-> context_order_number(r.op, context, filtered.entities),
              uncertain |-> filtered.uncertain,
              metadata |-> [conversation_stage |-> context.conversation_stage,
                            priority_entities |-> metadata_priority_entities(r.op)]]

\* app.py:40-50, config.py:20-52
InitParse ==
    /\ config = DefaultConfig @@
                [confidence |-> [min_intent_confidence |-> 300,
                                 min_entity_confidence |-> 400000,
                                 uncertain_threshold |-> 600]]
    /\ semantic_classifier = None
    /\ product_catalog \in Catalogs
    /\ session_manager = None
    /\ time = 0
    /\ pc = "idle"
    /\ request = NoRequest
    /\ result = NoResult

\* app.py:409, 467, 528: an endpoint calls a parse function with the values the
\* validators returned: a context without proposed_substitute or with a str
\* ('Milk', ''), a number (5, 0) or a list (['Milk']) under that key, and with
\* or without an order_number
ParseRequest ==
    /\ pc = "idle"
    /\ \E op \in {"parse_single_text", "parse_pre_order", "parse_post_delivery"},
          text \in ParseTexts,
          proposed_substitute \in
              {[kind |-> "absent", str |-> <<>>, truthy |-> FALSE],
               [kind |-> "str", str |-> <<"Milk">>, truthy |-> TRUE],
               [kind |-> "str", str |-> <<>>, truthy |-> FALSE],
               [kind |-> "int", str |-> <<>>, truthy |-> TRUE],
               [kind |-> "int", str |-> <<>>, truthy |-> FALSE],
               [kind |-> "list", str |-> <<>>, truthy |-> TRUE]},
          order_number \in {<<>>, <<"ab123">>} :
          request' = [op |-> op, text |-> text,
                      context |-> [proposed_substitute |-> proposed_substitute,
                                   order_number |-> order_number,
                                   conversation_stage |-> None]]
    /\ pc' = "called"
    /\ result' = NoResult
    /\ UNCHANGED <<session_manager, time, config, semantic_classifier, product_catalog>>

\* the parse function returns its response or raises
ParseResponse ==
    /\ pc = "called"
    /\ request.op \in {"parse_single_text", "parse_pre_order", "parse_post_delivery"}
    /\ \E classified \in {[intent |-> "unknown", confidence |-> 300],
                          [intent |-> "report_issue", confidence |-> 950]},
          polarity \in TextBlob("en"),
          fuzzy_products \in _fuzzy_match_products(Words(request.text.tokens), product_catalog) :
          result' = parse(request, product_catalog, config, classified, polarity,
                          fuzzy_products)
    /\ pc' = "returned"
    /\ UNCHANGED <<session_manager, time, config, semantic_classifier, product_catalog, request>>

NextParse == ParseRequest \/ ParseResponse \/ Done

SpecParse == InitParse /\ [][NextParse]_vars

Parsed == pc = "returned" /\ request.op \in {"parse_single_text", "parse_pre_order",
                                             "parse_post_delivery"}

\* C26: for every request whose text, context and session id pass validation,
\* with context values of any accepted type under any key, the three parse
\* functions return a parse result and never fail with an internal error.
C26_ParseNeverFails ==
    Parsed => /\ result.error = None
              /\ result.intent \in Intents \cup {"unknown"}

\* what a parse function returns when the extractor boosts the types of
\* `priority` and the confidence filter runs on the boosted confidences
EntitiesWithBoostOf(priority, polarity, fuzzy_products) ==
    LET call == [text |-> request.text, language |-> "en",
                 context |-> [proposed_substitute |-> request.context.proposed_substitute.str],
                 priority_entities |-> priority,
                 detected_intent |-> result.intent]
        entities == extract(call, product_catalog, config.max_fuzzy_results, polarity,
                            fuzzy_products)
    IN  context_order_number(request.op, request.context,
            apply_confidence_filters(result.intent, result.confidence, entities,
                                     config).entities)

\* C28: for parse_pre_order and parse_post_delivery the entity types listed in
\* metadata.priority_entities of the response are exactly the types whose
\* confidences the extractor boosted for the request, and the boost comes before
\* the confidence filter decides which products and quantities to drop.
C28_MetadataNamesBoostedTypes ==
    (Parsed /\ request.op \in StageParsers /\ result.error = None) =>
        \E polarity \in TextBlob("en"),
           fuzzy_products \in _fuzzy_match_products(Words(request.text.tokens),
                                                    product_catalog) :
            result.entities = EntitiesWithBoostOf(result.metadata.priority_entities,
                                                  polarity, fuzzy_products)

====
